---- MODULE Spec2Model ----
(***************************************************************************)
(* Release Store of the deploy tool (cli-tool/deploy_tool/core/aws_manager *)
(* .py): the S3 bucket as a map from keys to objects, and the operations   *)
(* deploy_version (upload), activate_version, list_versions,               *)
(* get_project_status and cleanup_old_versions, each broken into the       *)
(* individual object-store calls it issues.  Every object-store call may   *)
(* raise; what the caller sees then follows the try/except of the code.    *)
(***************************************************************************)
EXTENDS Integers, Sequences, FiniteSets, TLC

\* ------------------------------------------------------------------ bounds
\* Number of operations started in a run of two concurrent commands.
MaxConcurrentOps == 2
\* Largest keep count handed to cleanup_old_versions.
MaxKeep == 2

\* Most names in "dependencies" and in "devDependencies" of a package.json.
MaxDeps == 2
MaxDevDeps == 1

\* The number of commands of the tool run one after the other.
MaxCommands == 3

\* The number of tokens a page is built from.
MaxTokens == 2

\* How often the asset paths of a page are fixed.
MaxPasses == 2

\* How deep below the build directory an entry may lie.
MaxDepth == 2

\* How many objects a cleared prefix may hold.
MaxObjects == 2001

\* ------------------------------------------------------- program constants
\* aws_manager.py:232, the chunk size of delete_objects.
DeleteBatch == 1000

INFRASTRUCTURE_BUCKET == "minfy-uzaif-capstone-deployments"

\* ------------------------------------------------------------ input spaces
Projects == {"shop", "blog"}
\* Version identifiers, each the sequence of its "/"-separated segments:
\* "v1", "v2", "v3" and "rel/1".
Versions == {<<"v1">>, <<"v2">>, <<"v3">>, <<"rel", "1">>}
RelPaths == {"app.js", "index.html"}
Contents == {1, 2, 3}
Clients  == {"c1", "c2"}
KeepCounts == 1..MaxKeep

\* Byte order of the strings that occur in keys, as Python's sorted() and the
\* object store's listing order compare them.
StrRank(s) ==
  CASE s = "1"          -> 0
    [] s = "app.js"     -> 1
    [] s = "blog"       -> 2
    [] s = "builds"     -> 3
    [] s = "current"    -> 4
    [] s = "index.html" -> 5
    [] s = "rel"        -> 6
    [] s = "shop"       -> 7
    [] s = "v1"         -> 8
    [] s = "v2"         -> 9
    [] s = "v3"         -> 10

\* A build directory: the files found in it, each with its bytes.
EmptyDir == [f \in {} |-> 1]
SiteA == [f \in {"app.js", "index.html"} |-> 1]
SiteB == [f \in {"index.html"} |-> 2]
SiteC == [f \in {"index.html"} |-> 3]

\* The uploads tried: project, version identifier, build directory.
Uploads ==
  ({"shop"} \X {<<"v1">>} \X {EmptyDir, SiteA, SiteB})
    \cup ({"shop"} \X {<<"v2">>, <<"v3">>, <<"rel", "1">>} \X {SiteB})
    \cup {<<"blog", <<"v1">>, SiteC>>}

\* ------------------------------------------------------------------- keys
\* A key "a/b/c" is the sequence of its segments; a prefix "a/b/" likewise.
VersionPrefix(project_name, version) == <<project_name, "builds">> \o version
BuildsPrefix(project_name) == <<project_name, "builds">>

\* Mutant: the prefix stops at the project.
CurrentPrefixOfProject(project_name) == <<project_name>>

CurrentPrefix(project_name) == <<project_name, "current">>

HasPrefix(key, prefix) ==
  /\ Len(key) > Len(prefix)
  /\ SubSeq(key, 1, Len(prefix)) = prefix

\* source_key[len(source_prefix):]
RelativeKey(key, prefix) == SubSeq(key, Len(prefix) + 1, Len(key))

RECURSIVE KeyLess(_, _)
KeyLess(a, b) ==
  IF a = <<>> THEN b # <<>>
  ELSE IF b = <<>> THEN FALSE
  ELSE IF Head(a) = Head(b) THEN KeyLess(Tail(a), Tail(b))
  ELSE StrRank(Head(a)) < StrRank(Head(b))

RECURSIVE SortKeys(_)
SortKeys(S) ==
  IF S = {} THEN <<>>
  ELSE LET m == CHOOSE k \in S : \A o \in S \ {k} : KeyLess(k, o)
       IN <<m>> \o SortKeys(S \ {m})

Range(seq) == {seq[i] : i \in 1..Len(seq)}

\* -------------------------------------------------------- object metadata
Suffix(rel) ==
  CASE rel = "index.html" -> ".html"
    [] rel = "app.js"     -> ".js"
    [] rel = "style.css"  -> ".css"
    [] rel = "logo.png"   -> ".png"

\* mimetypes.guess_type answers for both suffixes, so the fallback table of
\* _get_enhanced_content_type is not consulted for them.
EnhancedContentType(rel) ==
  CASE Suffix(rel) = ".html" -> "text/html"
    [] Suffix(rel) = ".js"   -> "text/javascript"
    [] OTHER                 -> "binary/octet-stream"

CacheControl(rel) ==
  IF Suffix(rel) \in {".js", ".css", ".png", ".jpg", ".gif", ".svg", ".ico",
                      ".woff", ".woff2", ".ttf"}
  THEN "public, max-age=31536000, immutable"
  ELSE IF Suffix(rel) = ".html" THEN "public, max-age=0, must-revalidate"
  ELSE IF Suffix(rel) \in {".json", ".xml", ".txt"} THEN "public, max-age=3600"
  ELSE "public, max-age=86400"

StoredObject(body, rel) ==
  [body |-> body, content_type |-> EnhancedContentType(rel),
   cache_control |-> CacheControl(rel)]

WebsiteUrl(project_name) ==
  <<INFRASTRUCTURE_BUCKET, "s3-website", project_name, "current">>

NoUrl == <<>>

\* ------------------------------------------------------------------ state
VARIABLES
  bucket,   \* the objects of the bucket: key -> object
  clients,  \* the command invocations that run against the bucket
  pc,       \* per client: the object-store call it issues next
  call,     \* per client: the locals and the outcome of its current/last call
  quota,    \* the operations that may still be started, when limited
  tenants,  \* the project names of the configurations the commands run with
  snapshots, \* <<project, version>> of the uploads that returned normally
             \* and whose objects no deletion has removed since
  host,     \* per client: the working tree of its deploy command on the local
            \* disk and the background thread that is to delete it
  build,    \* the build of one project by the BuildManager: its inputs, its
            \* position, the commands it has run and what they left behind
  html,     \* one HTML file of the build directory: its content and how
            \* often its asset paths have been fixed
  cmd,      \* per client: the command of the tool it runs (deploy, rollback,
            \* versions --cleanup) with its options, and how the last ended
  config,   \* the project configuration file: the recorded current_version
  count,    \* one build directory as a tree of entries, the file count of its
            \* build metadata and the uploaded_files of its upload
  monitor,  \* the discovery service: its snapshot of the deployed projects,
            \* the target files it keeps and what its last cycle did
  purge     \* one _clear_prefix call on a prefix with many objects: the
            \* number of listed keys and the delete calls issued so far

vars ==
  <<bucket, clients, pc, call, quota, tenants, snapshots, host, build, html,
    cmd, config, count, monitor, purge>>

\* The bucket and the commands that run against it.
release_vars == <<bucket, clients, pc, call, quota, tenants, snapshots>>

\* What the build of a project works on.
build_vars == <<build, html, count>>

\* The commands of the tool and the configuration file they keep.
command_vars == <<cmd, config>>

\* What the operations of the Release Store leave alone.
local_vars == <<host, build_vars, command_vars, monitor, purge>>

\* No version: the value of a missing current_version.
NoVersion == <<>>

\* No command runs; "exit" and "last" tell how the last one ended.
NoCommand ==
  [name |-> "none", version |-> NoVersion, keep |-> 0, build_only |-> FALSE,
   exit |-> "none", last |-> "none", runs |-> 0]

\* The configuration as init writes it: no current_version.
NoConfig == [current_version |-> NoVersion]

\* A target file that was never written, and one whose write broke off.
NoFile == [written |-> FALSE, projects |-> {}]

\* The discovery service after __init__: previous_deployments = set().
NoMonitor ==
  [previous_deployments |-> {}, targets |-> NoFile, grafana |-> NoFile,
   last |-> [current |-> {}, wrote |-> FALSE, reload |-> "none",
             fault |-> "none"]]

\* No prefix is being cleared.
NoPurge == [pc |-> "none", n |-> 0, i |-> 0, batches |-> <<>>]

\* No build directory is counted.
NoCount == [pc |-> "none", tree |-> [p \in {} |-> "file"], file_count |-> 0,
            uploaded_files |-> 0]

\* No HTML file is looked at.
NoPage == [content |-> <<>>, first |-> <<>>, passes |-> 0, written |-> FALSE]

\* No package.json has been read.
NoManifest == [kind |-> "none", dependencies |-> {}, devDependencies |-> {}]

\* No exception has been raised.
NoError == [message |-> "", failures |-> <<>>]

\* No build is under way.
NoBuild ==
  [pc |-> "none", manifest |-> NoManifest, yarn |-> FALSE, framework |-> "",
   build_dir_name |-> "", installs |-> <<>>, builds |-> <<>>,
   config |-> "absent", backup |-> "absent", config0 |-> "absent",
   error |-> NoError, report |-> "",
   output |-> [exists |-> FALSE, files |-> {}], outcome |-> "none",
   artifact |-> {}]

\* No working tree: the command is not a deploy, or has not cloned yet.
NoTree == [tree |-> "none", timer |-> "off", artifact |-> EmptyDir]

\* build_dir.rglob('*') filtered by is_file(): nothing once the tree is gone.
Rglob(h) == IF h.tree = "present" THEN h.artifact ELSE EmptyDir

\* The build directory a command hands to deploy_version: any directory for a
\* direct call, the build output in its working tree for a deploy command
\* that has just built.
BuildDirOf(c, build_dir) ==
  \/ host[c].tree = "none"
  \/ /\ call[c].op = "build"
     /\ call[c].outcome = "ok"
     /\ build_dir = Rglob(host[c])

\* Any number of operations may be started.
Unlimited == [limited |-> FALSE, left |-> 0]

Limited(n) == [limited |-> TRUE, left |-> n]

HasQuota == ~quota.limited \/ quota.left > 0

EmptyBucket == [k \in {} |-> 0]

\* Mutant: an upload that stores nothing.
PutNothing(b, key, obj) == b

PutObject(b, key, obj) ==
  [k \in (DOMAIN b) \cup {key} |-> IF k = key THEN obj ELSE b[k]]

DeleteObjects(b, keys) == [k \in (DOMAIN b) \ keys |-> b[k]]

\* list_objects_v2 under a prefix: the keys, in listing order.
ListObjects(b, prefix) == SortKeys({k \in DOMAIN b : HasPrefix(k, prefix)})

\* The objects under a prefix, by relative key.
FileSet(b, prefix) ==
  {<<RelativeKey(k, prefix), b[k]>> : k \in {x \in DOMAIN b : HasPrefix(x, prefix)}}

\* list_objects_v2 with Delimiter='/': the first-level names under builds/.
CommonPrefixes(b, builds_prefix) ==
  {k[Len(builds_prefix) + 1] :
     k \in {x \in DOMAIN b : HasPrefix(x, builds_prefix)
                              /\ Len(x) > Len(builds_prefix) + 1}}

\* sorted(versions, reverse=True)
RECURSIVE SortedReverse(_)
SortedReverse(S) ==
  IF S = {} THEN <<>>
  ELSE LET m == CHOOSE v \in S : \A o \in S \ {v} : KeyLess(o, v)
       IN <<m>> \o SortedReverse(S \ {m})

\* Mutant: sorted(versions) without reverse=True.
VersionListAscending(b, project_name) ==
  SortKeys({<<name>> : name \in
              {n \in CommonPrefixes(b, BuildsPrefix(project_name)) : n # ""}})

\* What list_versions returns when its listing call succeeds: the names cut
\* out of the common prefixes, as identifiers.
VersionList(b, project_name) ==
  SortedReverse({<<name>> : name \in
                   {n \in CommonPrefixes(b, BuildsPrefix(project_name)) : n # ""}})

\* versions[keep_count:]
Slice(seq, from) == SubSeq(seq, from + 1, Len(seq))

NoCall ==
  [op |-> "none", project |-> "", version |-> <<>>, keep |-> 0,
   art |-> EmptyBucket, files |-> {}, prefix |-> <<>>, keys |-> <<>>,
   vers |-> <<>>, n |-> 0, outcome |-> "none", versions |-> <<>>,
   is_deployed |-> FALSE, url |-> NoUrl, s3_error |-> FALSE,
   swallowed |-> FALSE, pre |-> {}, src |-> {}]

\* Mutant: an operation waits until no other command is in the middle of one.
CanStartAlone(c) ==
  /\ c \in clients
  /\ pc[c] = "idle"
  /\ HasQuota
  /\ \A d \in clients \ {c} : pc[d] = "idle"

\* No lock, lease or marker object is consulted before an operation starts.
CanStart(c) ==
  /\ c \in clients
  /\ pc[c] = "idle"
  /\ HasQuota

Spend == IF quota.limited THEN Limited(quota.left - 1) ELSE quota

\* pre: what current/ of the project holds when the call starts.
Begin(c, op, project_name) ==
  [NoCall EXCEPT !.op = op, !.project = project_name,
                 !.pre = IF op = "activate"
                         THEN FileSet(bucket, CurrentPrefix(project_name))
                         ELSE {}]

Init ==
  /\ bucket = EmptyBucket
  /\ clients = {"c1"}
  /\ pc = [c \in Clients |-> "idle"]
  /\ call = [c \in Clients |-> NoCall]
  /\ quota = Unlimited
  /\ tenants = {"shop"}
  /\ snapshots = {}
  /\ host = [c \in Clients |-> NoTree]
  /\ build = NoBuild
  /\ html = NoPage
  /\ cmd = [c \in Clients |-> NoCommand]
  /\ config = NoConfig
  /\ count = NoCount
  /\ monitor = NoMonitor
  /\ purge = NoPurge

RECURSIVE PutAll(_, _, _)
PutAll(b, prefix, dir) ==
  IF DOMAIN dir = {} THEN b
  ELSE LET f == CHOOSE x \in DOMAIN dir : TRUE
       IN PutAll(PutObject(b, prefix \o <<f>>, StoredObject(dir[f], f)), prefix,
                 [x \in (DOMAIN dir) \ {f} |-> dir[x]])

\* The bucket after "deploy --version v1" of SiteA and an upload of SiteB as
\* v2 for shop, and "deploy --version v1" of SiteC for blog.
DeployedBucket ==
  LET shop1 == PutAll(EmptyBucket, VersionPrefix("shop", <<"v1">>), SiteA)
      shop2 == PutAll(shop1, VersionPrefix("shop", <<"v2">>), SiteB)
      shop == PutAll(shop2, CurrentPrefix("shop"), SiteA)
      blog1 == PutAll(shop, VersionPrefix("blog", <<"v1">>), SiteC)
  IN PutAll(blog1, CurrentPrefix("blog"), SiteC)

InitConcurrent ==
  /\ bucket = DeployedBucket
  /\ clients = Clients
  /\ pc = [c \in Clients |-> "idle"]
  /\ call = [c \in Clients |-> NoCall]
  /\ quota = Limited(MaxConcurrentOps)
  /\ tenants = Projects
  /\ snapshots = {<<"shop", <<"v1">>>>, <<"shop", <<"v2">>>>, <<"blog", <<"v1">>>>}
  /\ host = [c \in Clients |-> NoTree]
  /\ build = NoBuild
  /\ html = NoPage
  /\ cmd = [c \in Clients |-> NoCommand]
  /\ config = NoConfig
  /\ count = NoCount
  /\ monitor = NoMonitor
  /\ purge = NoPurge


\* --------------------------------------------------- how a call continues
\* The locals of a call die with it; what the caller gets stays.
Ended(cr, outcome) ==
  [cr EXCEPT !.outcome = outcome, !.art = EmptyBucket, !.files = {},
             !.prefix = <<>>, !.keys = <<>>, !.vers = <<>>]

\* Mutant: the exception is lost and the call returns.
RaiseLost(cr) == Ended(cr, "ok")

Raise(cr) == Ended(cr, "error")

Returned(cr) == Ended(cr, "ok")

\* Mutant: activate_version returns after _clear_prefix without copying.
AfterClearReturns(cr) ==
  IF cr.op = "activate"
  THEN [pc |-> "idle", call |-> Returned(cr)]
  ELSE LET rest == Tail(cr.vers)
           counted == [cr EXCEPT !.n = cr.n + 1, !.vers = rest, !.keys = <<>>]
       IN IF rest = <<>>
          THEN [pc |-> "idle", call |-> Returned(counted)]
          ELSE [pc |-> "clear_list",
                call |-> [counted EXCEPT
                            !.prefix = VersionPrefix(cr.project, Head(rest))]]

\* Where control goes when _clear_prefix is left, normally or through its
\* "except Exception: pass": activate_version goes on to the copy,
\* cleanup_old_versions counts the version and turns to the next one.
AfterClear(cr) ==
  IF cr.op = "activate"
  THEN [pc |-> "copy_list", call |-> cr]
  ELSE LET rest == Tail(cr.vers)
           counted == [cr EXCEPT !.n = cr.n + 1, !.vers = rest, !.keys = <<>>]
       IN IF rest = <<>>
          THEN [pc |-> "idle", call |-> Returned(counted)]
          ELSE [pc |-> "clear_list",
                call |-> [counted EXCEPT
                            !.prefix = VersionPrefix(cr.project, Head(rest))]]

\* ---------------------------------------------------- _setup_website_hosting
\* Run by the constructor of every command.  The website configuration and
\* the bucket policy it writes are read back by no operation of the tool.
SetupWebsiteHosting(c) ==
  /\ CanStart(c)
  /\ quota' = Spend
  /\ pc' = pc
  /\ call' = [call EXCEPT ![c] = Returned(Begin(c, "setup", ""))]
  /\ UNCHANGED <<bucket, clients, tenants, snapshots>>
  /\ UNCHANGED local_vars

\* put_bucket_website or put_bucket_policy raises: "except Exception: pass".
SetupWebsiteHostingFails(c) ==
  /\ CanStart(c)
  /\ quota' = Spend
  /\ pc' = pc
  /\ call' = [call EXCEPT ![c] =
       Returned([Begin(c, "setup", "") EXCEPT !.s3_error = TRUE,
                                              !.swallowed = TRUE])]
  /\ UNCHANGED <<bucket, clients, tenants, snapshots>>
  /\ UNCHANGED local_vars

\* ------------------------------------------------------------ deploy_version
DeployVersion(c, project_name, version, build_dir) ==
  /\ CanStart(c)
  /\ project_name \in tenants
  /\ BuildDirOf(c, build_dir)
  /\ quota' = Spend
  /\ LET cr == [Begin(c, "upload", project_name) EXCEPT
                  !.version = version, !.art = build_dir,
                  !.files = DOMAIN build_dir,
                  !.prefix = VersionPrefix(project_name, version)]
     IN IF DOMAIN build_dir = {}
        THEN /\ pc' = [pc EXCEPT ![c] = "idle"]
             /\ call' = [call EXCEPT ![c] = Raise(cr)]
        ELSE /\ pc' = [pc EXCEPT ![c] = "upload"]
             /\ call' = [call EXCEPT ![c] = cr]
  /\ UNCHANGED <<bucket, clients, tenants, snapshots>>
  /\ UNCHANGED local_vars

\* upload_file opens the file on the local disk: it must still be there.
UploadFile(c, rel) ==
  /\ c \in clients
  /\ pc[c] = "upload"
  /\ rel \in call[c].files
  /\ host[c].tree # "deleted"
  /\ LET cr == call[c]
         s3_key == cr.prefix \o <<rel>>
         left == cr.files \ {rel}
         done == [cr EXCEPT !.files = left, !.n = cr.n + 1]
     IN /\ bucket' = PutObject(bucket, s3_key, StoredObject(cr.art[rel], rel))
        /\ IF left = {}
           THEN /\ pc' = [pc EXCEPT ![c] = "idle"]
                /\ call' = [call EXCEPT ![c] =
                     Returned([done EXCEPT !.url = WebsiteUrl(cr.project)])]
           ELSE /\ pc' = pc
                /\ call' = [call EXCEPT ![c] = done]
        /\ snapshots' = IF left = {}
                        THEN snapshots \cup {<<cr.project, cr.version>>}
                        ELSE snapshots
  /\ UNCHANGED <<clients, quota, tenants>>
  /\ UNCHANGED local_vars

\* upload_file raises (object store, or the file is gone from the disk):
\* "Failed to upload files".
UploadFileFails(c) ==
  /\ c \in clients
  /\ pc[c] = "upload"
  /\ pc' = [pc EXCEPT ![c] = "idle"]
  /\ call' = [call EXCEPT ![c] = Raise([@ EXCEPT !.s3_error = TRUE])]
  /\ UNCHANGED <<bucket, clients, quota, tenants, snapshots>>
  /\ UNCHANGED local_vars

\* ---------------------------------------------------------- activate_version
ActivateVersion(c, project_name, version) ==
  /\ CanStart(c)
  /\ project_name \in tenants
  /\ quota' = Spend
  /\ pc' = [pc EXCEPT ![c] = "clear_list"]
  /\ call' = [call EXCEPT ![c] =
       [Begin(c, "activate", project_name) EXCEPT
          !.version = version, !.prefix = CurrentPrefix(project_name),
          \* src: what builds/{version}/ holds when the call starts.
          !.src = FileSet(bucket, VersionPrefix(project_name, version))]]
  /\ UNCHANGED <<bucket, clients, tenants, snapshots>>
  /\ UNCHANGED local_vars

\* ------------------------------------------------------------- _clear_prefix
ClearList(c) ==
  /\ c \in clients
  /\ pc[c] = "clear_list"
  /\ LET objects_to_delete == ListObjects(bucket, call[c].prefix)
         nxt == AfterClear(call[c])
     IN IF objects_to_delete = <<>>
        THEN /\ pc' = [pc EXCEPT ![c] = nxt.pc]
             /\ call' = [call EXCEPT ![c] = nxt.call]
        ELSE /\ pc' = [pc EXCEPT ![c] = "clear_delete"]
             /\ call' = [call EXCEPT ![c].keys = objects_to_delete]
  /\ UNCHANGED <<bucket, clients, quota, tenants, snapshots>>
  /\ UNCHANGED local_vars

ClearDelete(c) ==
  /\ c \in clients
  /\ pc[c] = "clear_delete"
  /\ LET keys == call[c].keys
         last == IF Len(keys) < DeleteBatch THEN Len(keys) ELSE DeleteBatch
         batch == SubSeq(keys, 1, last)
         rest == SubSeq(keys, last + 1, Len(keys))
         nxt == AfterClear([call[c] EXCEPT !.keys = <<>>])
     IN /\ bucket' = DeleteObjects(bucket, Range(batch))
        /\ IF rest = <<>>
           THEN /\ pc' = [pc EXCEPT ![c] = nxt.pc]
                /\ call' = [call EXCEPT ![c] = nxt.call]
           ELSE /\ pc' = pc
                /\ call' = [call EXCEPT ![c].keys = rest]
        /\ snapshots' = {s \in snapshots :
                           \E k \in DOMAIN bucket' :
                             HasPrefix(k, VersionPrefix(s[1], s[2]))}
  /\ UNCHANGED <<clients, quota, tenants>>
  /\ UNCHANGED local_vars

\* A listing or a delete_objects call raises: "except Exception: pass".
ClearFails(c) ==
  /\ c \in clients
  /\ pc[c] \in {"clear_list", "clear_delete"}
  /\ LET nxt == AfterClear([call[c] EXCEPT !.keys = <<>>, !.s3_error = TRUE,
                                           !.swallowed = TRUE])
     IN /\ pc' = [pc EXCEPT ![c] = nxt.pc]
        /\ call' = [call EXCEPT ![c] = nxt.call]
  /\ UNCHANGED <<bucket, clients, quota, tenants, snapshots>>
  /\ UNCHANGED local_vars

\* ----------------------------------------------------------- _copy_s3_prefix
\* Mutant: MetadataDirective='REPLACE' with no metadata given.
CopiedObjectReplaced(source) ==
  [source EXCEPT !.content_type = "binary/octet-stream", !.cache_control = ""]

\* copy_object with MetadataDirective='COPY': body and metadata of the source.
CopiedObject(source) == source

CopyList(c) ==
  /\ c \in clients
  /\ pc[c] = "copy_list"
  /\ LET cr == call[c]
         source_prefix == VersionPrefix(cr.project, cr.version)
         found == ListObjects(bucket, source_prefix)
     IN /\ IF found = <<>>
           THEN /\ pc' = [pc EXCEPT ![c] = "idle"]
                /\ call' = [call EXCEPT ![c] =
                     Returned([cr EXCEPT !.url = WebsiteUrl(cr.project)])]
           ELSE /\ pc' = [pc EXCEPT ![c] = "copy"]
                /\ call' = [call EXCEPT ![c].keys = found]
  /\ UNCHANGED <<bucket, clients, quota, tenants, snapshots>>
  /\ UNCHANGED local_vars

CopyObject(c) ==
  /\ c \in clients
  /\ pc[c] = "copy"
  /\ LET cr == call[c]
         source_prefix == VersionPrefix(cr.project, cr.version)
         dest_prefix == CurrentPrefix(cr.project)
         source_key == Head(cr.keys)
         dest_key == dest_prefix \o RelativeKey(source_key, source_prefix)
         rest == Tail(cr.keys)
         done == [cr EXCEPT !.keys = rest, !.n = cr.n + 1]
     IN /\ source_key \in DOMAIN bucket
        /\ bucket' = PutObject(bucket, dest_key, CopiedObject(bucket[source_key]))
        /\ IF rest = <<>>
           THEN /\ pc' = [pc EXCEPT ![c] = "idle"]
                /\ call' = [call EXCEPT ![c] =
                     Returned([done EXCEPT !.url = WebsiteUrl(cr.project)])]
           ELSE /\ pc' = pc
                /\ call' = [call EXCEPT ![c] = done]
  /\ UNCHANGED <<clients, quota, tenants, snapshots>>
  /\ UNCHANGED local_vars

\* The listing or a copy_object call raises (the source key may be gone):
\* "Failed to activate version".
CopyFails(c) ==
  /\ c \in clients
  /\ pc[c] \in {"copy_list", "copy"}
  /\ pc' = [pc EXCEPT ![c] = "idle"]
  /\ call' = [call EXCEPT ![c] = Raise([@ EXCEPT !.keys = <<>>, !.s3_error = TRUE])]
  /\ UNCHANGED <<bucket, clients, quota, tenants, snapshots>>
  /\ UNCHANGED local_vars

\* ------------------------------------------------------------- list_versions
ListVersions(c, project_name) ==
  /\ CanStart(c)
  /\ project_name \in tenants
  /\ quota' = Spend
  /\ pc' = pc
  /\ call' = [call EXCEPT ![c] =
       Returned([Begin(c, "list", project_name) EXCEPT
                   !.versions = VersionList(bucket, project_name)])]
  /\ UNCHANGED <<bucket, clients, tenants, snapshots>>
  /\ UNCHANGED local_vars

ListVersionsFails(c, project_name) ==
  /\ CanStart(c)
  /\ project_name \in tenants
  /\ quota' = Spend
  /\ pc' = pc
  /\ call' = [call EXCEPT ![c] =
       Raise([Begin(c, "list", project_name) EXCEPT !.s3_error = TRUE])]
  /\ UNCHANGED <<bucket, clients, tenants, snapshots>>
  /\ UNCHANGED local_vars

\* -------------------------------------------------------- get_project_status
GetProjectStatus(c, project_name) ==
  /\ CanStart(c)
  /\ project_name \in tenants
  /\ quota' = Spend
  /\ pc' = pc
  /\ LET is_deployed == ListObjects(bucket, CurrentPrefix(project_name)) # <<>>
     IN call' = [call EXCEPT ![c] =
          Returned([Begin(c, "status", project_name) EXCEPT
                      !.is_deployed = is_deployed,
                      !.url = IF is_deployed THEN WebsiteUrl(project_name)
                              ELSE NoUrl])]
  /\ UNCHANGED <<bucket, clients, tenants, snapshots>>
  /\ UNCHANGED local_vars

\* The probe raises: the handler returns {'is_deployed': False, 'error': ...}.
GetProjectStatusFails(c, project_name) ==
  /\ CanStart(c)
  /\ project_name \in tenants
  /\ quota' = Spend
  /\ pc' = pc
  /\ call' = [call EXCEPT ![c] =
       Returned([Begin(c, "status", project_name) EXCEPT !.s3_error = TRUE])]
  /\ UNCHANGED <<bucket, clients, tenants, snapshots>>
  /\ UNCHANGED local_vars

\* ------------------------------------------------------ cleanup_old_versions
CleanupOldVersions(c, project_name, keep_count) ==
  /\ CanStart(c)
  /\ project_name \in tenants
  /\ quota' = Spend
  /\ LET versions == VersionList(bucket, project_name)
         cr == [Begin(c, "cleanup", project_name) EXCEPT
                  !.keep = keep_count, !.versions = versions]
         versions_to_delete == Slice(versions, keep_count)
     IN IF Len(versions) <= keep_count
        THEN /\ pc' = pc
             /\ call' = [call EXCEPT ![c] = Returned(cr)]
        ELSE /\ pc' = [pc EXCEPT ![c] = "clear_list"]
             /\ call' = [call EXCEPT ![c] =
                  [cr EXCEPT !.vers = versions_to_delete,
                             !.prefix = VersionPrefix(project_name,
                                                      Head(versions_to_delete))]]
  /\ UNCHANGED <<bucket, clients, tenants, snapshots>>
  /\ UNCHANGED local_vars

\* list_versions raises inside cleanup: "Failed to cleanup versions".
CleanupOldVersionsFails(c, project_name, keep_count) ==
  /\ CanStart(c)
  /\ project_name \in tenants
  /\ quota' = Spend
  /\ pc' = pc
  /\ call' = [call EXCEPT ![c] =
       Raise([Begin(c, "cleanup", project_name) EXCEPT
                !.keep = keep_count, !.s3_error = TRUE])]
  /\ UNCHANGED <<bucket, clients, tenants, snapshots>>
  /\ UNCHANGED local_vars

\* --------------------------------------- build_and_prepare_for_deployment
\* The build of a deploy command ends well: the build output lies in the
\* working tree, and _schedule_cleanup has started the thread that sleeps and
\* then deletes the working tree.
BuildAndPrepare(c, build_output) ==
  /\ CanStart(c)
  /\ host[c].tree = "none"
  /\ quota' = Spend
  /\ pc' = pc
  /\ call' = [call EXCEPT ![c] = Returned(Begin(c, "build", ""))]
  /\ host' = [host EXCEPT ![c] =
       [tree |-> "present", timer |-> "armed", artifact |-> build_output]]
  /\ UNCHANGED <<bucket, clients, tenants, snapshots>>
  /\ UNCHANGED <<build_vars, monitor, purge, command_vars>>

\* The build raises: the working tree is cleaned up at once, "Build failed".
BuildAndPrepareFails(c) ==
  /\ CanStart(c)
  /\ host[c].tree = "none"
  /\ quota' = Spend
  /\ pc' = pc
  /\ call' = [call EXCEPT ![c] = Raise(Begin(c, "build", ""))]
  /\ host' = [host EXCEPT ![c] =
       [tree |-> "deleted", timer |-> "off", artifact |-> EmptyDir]]
  /\ UNCHANGED <<bucket, clients, tenants, snapshots>>
  /\ UNCHANGED <<build_vars, monitor, purge, command_vars>>

\* cleanup_after_delay: the sleep is over and _cleanup_directory removes the
\* working tree, the build output in it included.  Nothing joins the thread
\* and nothing tells it what the command is doing.
CleanupAfterDelay(c) ==
  /\ c \in clients
  /\ host[c].timer = "armed"
  /\ host' = [host EXCEPT ![c] =
       [tree |-> "deleted", timer |-> "fired", artifact |-> EmptyDir]]
  /\ UNCHANGED <<bucket, clients, pc, call, quota, tenants, snapshots>>
  /\ UNCHANGED <<build_vars, monitor, purge, command_vars>>

\* The process of the command ends between two calls (success, sys.exit(1),
\* --build-only): its daemon thread dies with it.
ProcessExits(c) ==
  /\ c \in clients
  /\ pc[c] = "idle"
  /\ host[c].tree # "none"
  /\ host' = [host EXCEPT ![c] = NoTree]
  /\ call' = [call EXCEPT ![c] = NoCall]
  /\ UNCHANGED <<bucket, clients, pc, quota, tenants, snapshots>>
  /\ UNCHANGED <<build_vars, monitor, purge, command_vars>>

\* ============================================================ BuildManager
\* The names a package.json may declare: those detection looks for, and one
\* it does not.
DepNames ==
  {"vite", "next", "@angular/core", "vue", "react-scripts", "react", "lodash"}

\* package.json as load_json_file finds it: a JSON object with its two
\* dependency groups, or no file, or no JSON, or groups that are no objects.
Manifests ==
  [kind : {"ok"},
   dependencies : {d \in SUBSET DepNames : Cardinality(d) <= MaxDeps},
   devDependencies : {d \in SUBSET DepNames : Cardinality(d) <= MaxDevDeps}]
    \cup [kind : {"missing", "invalid_json", "bad_groups"},
          dependencies : {{}}, devDependencies : {{}}]

\* How run_command can end; a non-zero exit and a timeout both become an
\* Exception, Ctrl-C is a KeyboardInterrupt.
CommandResults == {"ok", "fail", "timeout", "interrupt"}

\* Mutant: react is looked for before vue.
DetectReactFirst(m) ==
  IF m.kind # "ok" THEN <<"react", "build">>
  ELSE LET dependencies == m.dependencies \cup m.devDependencies
       IN IF "vite" \in dependencies THEN <<"vite", "dist">>
          ELSE IF "next" \in dependencies THEN <<"next", ".next">>
          ELSE IF "@angular/core" \in dependencies THEN <<"angular", "dist">>
          ELSE IF "react" \in dependencies THEN <<"react", "build">>
          ELSE IF "vue" \in dependencies THEN <<"vue", "dist">>
          ELSE IF "react-scripts" \in dependencies THEN <<"react", "build">>
          ELSE <<"node", "dist">>

\* _detect_framework_and_build_dir: the if-chain over the merged groups;
\* any exception on the way gives ('react', 'build').
\* Mutant: a manifest that cannot be read is taken for a plain node project.
DetectNodeByDefault(m) ==
  IF m.kind # "ok" THEN <<"node", "dist">>
  ELSE LET dependencies == m.dependencies \cup m.devDependencies
       IN IF "vite" \in dependencies THEN <<"vite", "dist">>
          ELSE IF "next" \in dependencies THEN <<"next", ".next">>
          ELSE IF "@angular/core" \in dependencies THEN <<"angular", "dist">>
          ELSE IF "vue" \in dependencies THEN <<"vue", "dist">>
          ELSE IF "react-scripts" \in dependencies THEN <<"react", "build">>
          ELSE IF "react" \in dependencies THEN <<"react", "build">>
          ELSE <<"node", "dist">>

DetectFrameworkAndBuildDir(m) ==
  IF m.kind # "ok" THEN <<"react", "build">>
  ELSE LET dependencies == m.dependencies \cup m.devDependencies
       IN IF "vite" \in dependencies THEN <<"vite", "dist">>
          ELSE IF "next" \in dependencies THEN <<"next", ".next">>
          ELSE IF "@angular/core" \in dependencies THEN <<"angular", "dist">>
          ELSE IF "vue" \in dependencies THEN <<"vue", "dist">>
          ELSE IF "react-scripts" \in dependencies THEN <<"react", "build">>
          ELSE IF "react" \in dependencies THEN <<"react", "build">>
          ELSE <<"node", "dist">>

DetectFramework ==
  /\ build.pc = "detect"
  /\ LET found == DetectFrameworkAndBuildDir(build.manifest)
     IN build' = [build EXCEPT !.pc = "prepare", !.framework = found[1],
                                !.build_dir_name = found[2]]
  /\ UNCHANGED <<release_vars, host, html, count, command_vars, monitor, purge>>

\* _prepare_vite_project / _prepare_react_project: every exception is turned
\* into a warning.  For vite the generated vite.config.js replaces the one of
\* the repository, unless a step before the write (reading package.json, the
\* npm install of missing packages) or the write itself fails.  package.json
\* is not read again after this step.
PrepareProject(config_written) ==
  /\ build.pc = "prepare"
  /\ build' = [build EXCEPT
       !.pc = "install",
       !.manifest = NoManifest,
       !.config = IF build.framework = "vite" /\ config_written
                  THEN "generated" ELSE @]
  /\ UNCHANGED <<release_vars, host, html, count, command_vars, monitor, purge>>

\* ---------------------------------------------- _install_dependencies_robust
\* The commands of the install strategies, in the order of the code.
InstallCommands ==
  <<"npm ci", "npm install", "npm install --legacy-peer-deps", "yarn install">>

\* Mutant: yarn is tried whether it is on the host or not.
InstallAppliesAlways(b, k) == k \in 1..Len(InstallCommands)

\* Whether strategy k is there to be tried: yarn only if it is on the host.
InstallApplies(b, k) ==
  /\ k \in 1..Len(InstallCommands)
  /\ InstallCommands[k] = "yarn install" => b.yarn

\* One run of a command of a ladder, as the log of the ladder keeps it.
Attempt(k, command, result) ==
  [strategy |-> k, command |-> command, result |-> result]

\* raise Exception("All dependency installation methods failed"), wrapped by
\* the outer handler: a message and nothing else.
InstallError ==
  [message |-> "Failed to install dependencies: All dependency installation methods failed",
   failures |-> <<>>]

\* The next install strategy runs its command.  Success returns; a non-zero
\* exit or a timeout is printed as a warning and the next strategy follows,
\* or the final raise when none is left.
InstallStrategy(result) ==
  /\ build.pc = "install"
  /\ LET k == Len(build.installs) + 1
         tried == Append(build.installs, Attempt(k, InstallCommands[k], result))
     IN /\ InstallApplies(build, k)
        /\ build' =
             IF result = "ok"
             THEN [build EXCEPT !.pc = "ladder", !.installs = tried,
                                !.report = InstallCommands[k]]
             ELSE IF result = "interrupt"
             THEN [build EXCEPT !.pc = "interrupted", !.installs = tried]
             ELSE IF InstallApplies(build, k + 1)
             THEN [build EXCEPT !.installs = tried]
             ELSE [build EXCEPT !.pc = "raised", !.installs = tried,
                                !.error = InstallError]
  /\ UNCHANGED <<release_vars, host, html, count, command_vars, monitor, purge>>

\* ----------------------------------------------------- _build_with_fallbacks
\* The command of build strategy k for a framework.
BuildCommand(framework, k) ==
  CASE k = 1 -> "npm run build"
    [] k = 2 /\ framework = "vite" -> "npx vite build"
    [] k = 2 /\ framework = "react" -> "npx react-scripts build"
    [] k = 2 /\ framework = "next" -> "npx next build"
    [] k = 2 /\ framework = "angular" -> "npx ng build --base-href ./"
    [] k = 2 -> "npm run build"
    [] OTHER -> "npx vite build --base ./"

\* Mutant: the vite strategies are tried for every framework.
BuildAppliesAll(framework, k) == k \in 1..4

\* Whether build strategy k is there to be tried for the framework.
BuildApplies(framework, k) ==
  \/ k \in {1, 2}
  \/ k \in {3, 4} /\ framework = "vite"

\* The message print_success gives for the strategy that built.
BuildReport(k) ==
  CASE k = 1 -> "Standard build completed"
    [] k = 2 -> "Framework-specific build completed"
    [] k = 3 -> "Forced base path build completed"
    [] OTHER -> "Build without config completed"

\* raise Exception("All build strategies failed"): a message and nothing else.
BuildError == [message |-> "All build strategies failed", failures |-> <<>>]

\* Where a ladder step that did not build leaves the build: interrupted, at
\* the next strategy, or at the final raise.
AfterBuildAttempt(b, k, result) ==
  IF result = "ok" THEN [b EXCEPT !.pc = "built", !.report = BuildReport(k)]
  ELSE IF result = "interrupt" THEN [b EXCEPT !.pc = "interrupted"]
  ELSE IF BuildApplies(b.framework, k + 1) THEN b
  ELSE [b EXCEPT !.pc = "raised", !.error = BuildError]

\* Strategies 1 to 3: run the command.
BuildStrategy(result) ==
  /\ build.pc = "ladder"
  /\ LET k == Len(build.builds) + 1
         tried == [build EXCEPT !.builds =
                     Append(@, Attempt(k, BuildCommand(build.framework, k), result))]
     IN /\ k \in 1..3
        /\ BuildApplies(build.framework, k)
        /\ build' = AfterBuildAttempt(tried, k, result)
  /\ UNCHANGED <<release_vars, host, html, count, command_vars, monitor, purge>>

\* Strategy 4: vite.config.js, if there, is renamed to vite.config.js.backup
\* (taking the place of a file of that name), the command runs, and the
\* backup is renamed back: after a success if this run made the backup and it
\* is there, after an Exception if any file of that name is there.  A
\* KeyboardInterrupt is no Exception: it passes the handler.
BuildWithoutConfig(result) ==
  /\ build.pc = "ladder"
  /\ Len(build.builds) = 3
  /\ BuildApplies(build.framework, 4)
  /\ LET had_config == build.config # "absent"
         renamed == IF had_config
                    THEN [build EXCEPT !.backup = build.config, !.config = "absent"]
                    ELSE build
         ran == [renamed EXCEPT
                   !.config0 = build.config,
                   !.builds = Append(@, Attempt(4, BuildCommand(build.framework, 4),
                                                result))]
         restored ==
           IF result = "ok"
           THEN IF had_config /\ ran.backup # "absent"
                THEN [ran EXCEPT !.config = ran.backup, !.backup = "absent"]
                ELSE ran
           ELSE IF result = "interrupt"
           THEN ran
           ELSE IF ran.backup # "absent"
                THEN [ran EXCEPT !.config = ran.backup, !.backup = "absent"]
                ELSE ran
     IN build' = AfterBuildAttempt(restored, 4, result)
  /\ UNCHANGED <<release_vars, host, html, count, command_vars, monitor, purge>>

\* ------------------------------------ build directory check and verification
\* The files a build may leave in the build directory.
OutputFiles == {"index.html", "app.js", "style.css", "logo.png"}

\* What is found at project_dir / build_dir_name after the build: nothing, or
\* a directory with its files (a plain file of that name counts as a
\* directory without files: exists() is true and rglob finds nothing).
BuildDirStates ==
  {[exists |-> FALSE, files |-> {}]}
    \cup [exists : {TRUE}, files : SUBSET OutputFiles]

\* Mutant: any file makes the build valid.
HasAnyFile(files) == files # {}

\* web_files: the files whose suffix is .html, .js or .css.
HasWebFile(files) == \E f \in files : Suffix(f) \in {".html", ".js", ".css"}

DirectoryError == [message |-> "Build directory not created", failures |-> <<>>]

ContentError ==
  [message |-> "Build failed - no valid content generated", failures |-> <<>>]

\* The end of _build_project_robust and _verify_and_fix_build: the build
\* directory must exist, hold a file, and hold a web file; then
\* build_and_prepare_for_deployment returns it.
VerifyAndFixBuild(output) ==
  /\ build.pc = "built"
  /\ build.outcome = "none"
  /\ output \in BuildDirStates
  /\ build' =
       IF ~output.exists
       THEN [build EXCEPT !.output = output, !.outcome = "raised",
                          !.error = DirectoryError]
       ELSE IF output.files = {} \/ ~HasWebFile(output.files)
       THEN [build EXCEPT !.output = output, !.outcome = "raised",
                          !.error = ContentError]
       ELSE [build EXCEPT !.output = output, !.outcome = "returned",
                          !.artifact = output.files]
  /\ UNCHANGED <<release_vars, host, html, count, command_vars, monitor, purge>>

\* ------------------------------------------------------------ specification
Next ==
  \E c \in Clients :
    \/ SetupWebsiteHosting(c)
    \/ SetupWebsiteHostingFails(c)
    \/ \E u \in Uploads : DeployVersion(c, u[1], u[2], u[3])
    \/ \E f \in RelPaths : UploadFile(c, f)
    \/ UploadFileFails(c)
    \/ \E p \in Projects, v \in Versions : ActivateVersion(c, p, v)
    \/ ClearList(c)
    \/ ClearDelete(c)
    \/ ClearFails(c)
    \/ CopyList(c)
    \/ CopyObject(c)
    \/ CopyFails(c)
    \/ \E p \in Projects : ListVersions(c, p)
    \/ \E p \in Projects : ListVersionsFails(c, p)
    \/ \E p \in Projects : GetProjectStatus(c, p)
    \/ \E p \in Projects : GetProjectStatusFails(c, p)
    \/ \E p \in Projects, k \in KeepCounts : CleanupOldVersions(c, p, k)
    \/ \E p \in Projects, k \in KeepCounts : CleanupOldVersionsFails(c, p, k)

\* One command at a time against the bucket.
Spec == Init /\ [][Next]_vars

\* Two commands running against the bucket at once.
SpecConcurrent == InitConcurrent /\ [][Next]_vars

\* The build outputs of the deploy commands.
BuildOutputs == {SiteA, SiteB}

\* A deploy command up to the end of its upload, beside its cleanup thread.
NextDeploy ==
  \E c \in Clients :
    \/ \E b \in BuildOutputs : BuildAndPrepare(c, b)
    \/ BuildAndPrepareFails(c)
    \/ CleanupAfterDelay(c)
    \/ ProcessExits(c)
    \/ \E u \in Uploads : DeployVersion(c, u[1], u[2], u[3])
    \/ \E f \in RelPaths : UploadFile(c, f)
    \/ UploadFileFails(c)

SpecDeploy == Init /\ [][NextDeploy]_vars

\* The builds tried: a package.json, a host with or without yarn, a project
\* directory with or without vite.config.js and with or without a
\* vite.config.js.backup left behind by an earlier run.
BuildInputs ==
  {[NoBuild EXCEPT !.pc = "detect", !.manifest = m, !.yarn = y,
                   !.config = cfg, !.config0 = cfg, !.backup = bak] :
     m \in Manifests, y \in BOOLEAN, cfg \in {"absent", "original"},
     bak \in {"absent", "leftover"}}

InitBuild ==
  /\ bucket = EmptyBucket
  /\ clients = {"c1"}
  /\ pc = [c \in Clients |-> "idle"]
  /\ call = [c \in Clients |-> NoCall]
  /\ quota = Unlimited
  /\ tenants = {"shop"}
  /\ snapshots = {}
  /\ host = [c \in Clients |-> NoTree]
  /\ build \in BuildInputs
  /\ html = NoPage
  /\ cmd = [c \in Clients |-> NoCommand]
  /\ config = NoConfig
  /\ count = NoCount
  /\ monitor = NoMonitor
  /\ purge = NoPurge

\* build_and_prepare_for_deployment from the detection to its return.
NextBuild ==
  \/ DetectFramework
  \/ \E w \in BOOLEAN : PrepareProject(w)
  \/ \E r \in CommandResults : InstallStrategy(r)
  \/ \E r \in CommandResults : BuildStrategy(r)
  \/ \E r \in CommandResults : BuildWithoutConfig(r)
  \/ \E o \in BuildDirStates : VerifyAndFixBuild(o)

SpecBuild == InitBuild /\ [][NextBuild]_vars

\* ------------------------------------------------------- asset path fixing
\* The content of an HTML file is a sequence of lexical atoms: the strings the
\* patterns of _fix_single_html_file tell apart. " " stands for a whitespace
\* character, "x" for any other text.
FirstAt(s, i, atom) ==
  LET at == {j \in i..Len(s) : s[j] = atom}
  IN IF at = {} THEN 0 ELSE CHOOSE j \in at : \A k \in at : j <= k

\* Where a match of  attr="(/[^"]*)"  that begins at i ends, 0 if there is
\* none: the value begins with a slash and runs to the next double quote.
AttrEnd(s, i, attr) ==
  IF /\ i + 3 <= Len(s)
     /\ s[i] = attr /\ s[i + 1] = "=" /\ s[i + 2] = "\"" /\ s[i + 3] = "/"
  THEN FirstAt(s, i + 4, "\"")
  ELSE 0

\* The whitespace before the attribute in a match of
\* <tag([^>]*)\sattr="(/[^"]*)" that begins at i, 0 if there is none: the
\* first group is greedy, so it is the last whitespace that gives a match.
TagAttrAt(s, i, tag, attr) ==
  LET ks == {k \in (i + 1)..Len(s) :
               /\ s[k] = " "
               /\ \A j \in (i + 1)..(k - 1) : s[j] # ">"
               /\ AttrEnd(s, k + 1, attr) # 0}
  IN IF s[i] # tag \/ ks = {} THEN 0
     ELSE CHOOSE k \in ks : \A j \in ks : j <= k

RECURSIVE SubTagAttr(_, _, _, _)
\* re.sub(r'<tag([^>]*)\sattr="(/[^"]*)"', r'<tag\1 attr=".\2"', s), from
\* position i on.
SubTagAttr(s, i, tag, attr) ==
  IF i > Len(s) THEN <<>>
  ELSE LET k == TagAttrAt(s, i, tag, attr)
       IN IF k = 0 THEN <<s[i]>> \o SubTagAttr(s, i + 1, tag, attr)
          ELSE LET e == AttrEnd(s, k + 1, attr)
               IN SubSeq(s, i, k - 1) \o <<" ", attr, "=", "\"", ".">>
                    \o SubSeq(s, k + 4, e) \o SubTagAttr(s, e + 1, tag, attr)

FixTagAttr(s, tag, attr) == SubTagAttr(s, 1, tag, attr)

\* The attributes of the fourth pattern.
CommonAttributes == {"src", "href", "action"}

RECURSIVE SubCommonAttr(_, _)
\* re.sub(r'(src|href|action)="(/[^"]*)"', r'\1=".\2"', s), from i on.
SubCommonAttr(s, i) ==
  IF i > Len(s) THEN <<>>
  ELSE LET e == IF s[i] \in CommonAttributes THEN AttrEnd(s, i, s[i]) ELSE 0
       IN IF e = 0 THEN <<s[i]>> \o SubCommonAttr(s, i + 1)
          ELSE <<s[i], "=", "\"", ".">> \o SubSeq(s, i + 3, e)
                 \o SubCommonAttr(s, e + 1)

FixCommonAttr(s) == SubCommonAttr(s, 1)

RECURSIVE SubBase(_, _)
\* re.sub(r'<base[^>]*/?>', '', s), from i on.
SubBase(s, i) ==
  IF i > Len(s) THEN <<>>
  ELSE LET e == IF s[i] = "<base" THEN FirstAt(s, i + 1, ">") ELSE 0
       IN IF e = 0 THEN <<s[i]>> \o SubBase(s, i + 1)
          ELSE SubBase(s, e + 1)

RemoveBase(s) == SubBase(s, 1)

RECURSIVE SubUrl(_, _)
\* re.sub(r'url\(/([^)]*)\)', r'url(./\1)', s), from i on.
SubUrl(s, i) ==
  IF i > Len(s) THEN <<>>
  ELSE LET e == IF i + 1 <= Len(s) /\ s[i] = "url(" /\ s[i + 1] = "/"
                THEN FirstAt(s, i + 2, ")")
                ELSE 0
       IN IF e = 0 THEN <<s[i]>> \o SubUrl(s, i + 1)
          ELSE <<"url(", ".", "/">> \o SubSeq(s, i + 2, e) \o SubUrl(s, e + 1)

FixUrl(s) == SubUrl(s, 1)

\* The six substitutions in the order of the code.
FixContent(content) ==
  FixUrl(RemoveBase(FixCommonAttr(
    FixTagAttr(FixTagAttr(FixTagAttr(content, "<script", "src"),
                          "<link", "href"),
               "<img", "src"))))

\* _fix_single_html_file: the content is read, rewritten and, if that changed
\* it, written back.
FixSingleHtmlFile ==
  /\ html.passes < MaxPasses
  /\ LET content == FixContent(html.content)
     IN html' = [content |-> content,
                 first |-> IF html.passes = 0 THEN content ELSE html.first,
                 passes |-> html.passes + 1,
                 written |-> content # html.content]
  /\ UNCHANGED <<release_vars, host, build, count, command_vars, monitor, purge>>

\* The references of a page: root-absolute, protocol-relative, relative.
Paths == {<<"/", "x">>, <<"/", "/", "x">>, <<".", "/", "x">>}

BaseTag == <<"<base", " ", "href", "=", "\"", "/", "\"", ">">>

UrlRefs == {<<"url(">> \o p \o <<")">> : p \in Paths}

\* What stands between the quotes of an attribute: a reference, a reference
\* after a base tag, a url() reference.
Values == Paths \cup {BaseTag \o p : p \in Paths} \cup UrlRefs

Attributes ==
  {<<" ", pair[1], "=", "\"">> \o pair[2] \o <<"\"">> :
     pair \in CommonAttributes \X Values}

Tags ==
  {<<pair[1]>> \o pair[2] \o <<">">> :
     pair \in {"<script", "<link", "<img", "<a"} \X Attributes}

Tokens == Tags \cup {BaseTag} \cup UrlRefs

RECURSIVE Flatten(_)
Flatten(tokens) ==
  IF tokens = <<>> THEN <<>> ELSE Head(tokens) \o Flatten(Tail(tokens))

\* The pages tried: up to MaxTokens tokens, one after the other.
Pages ==
  {Flatten(tokens) :
     tokens \in UNION {[1..n -> Tokens] : n \in 1..MaxTokens}}

InitNormalize ==
  /\ bucket = EmptyBucket
  /\ clients = {"c1"}
  /\ pc = [c \in Clients |-> "idle"]
  /\ call = [c \in Clients |-> NoCall]
  /\ quota = Unlimited
  /\ tenants = {"shop"}
  /\ snapshots = {}
  /\ host = [c \in Clients |-> NoTree]
  /\ build = NoBuild
  /\ html \in {[NoPage EXCEPT !.content = page] : page \in Pages}
  /\ cmd = [c \in Clients |-> NoCommand]
  /\ config = NoConfig
  /\ count = NoCount
  /\ monitor = NoMonitor
  /\ purge = NoPurge

\* _fix_all_asset_paths on the file, once per build of the directory.
NextNormalize == FixSingleHtmlFile

SpecNormalize == InitNormalize /\ [][NextNormalize]_vars

\* ------------------------------------------- the files of a build directory
\* The entries of a build directory: path below the directory -> kind.
FileNames == {"index.html", "app.js", "logo.png"}

DirNames == {"assets"}

RECURSIVE PathsOfDepth(_)
PathsOfDepth(d) ==
  IF d = 1 THEN {<<n>> : n \in FileNames \cup DirNames}
  ELSE {<<"assets">> \o p : p \in PathsOfDepth(d - 1)}

EntryPaths == UNION {PathsOfDepth(d) : d \in 1..MaxDepth}

KindOf(path) == IF path[Len(path)] \in DirNames THEN "dir" ELSE "file"

\* A set of paths is a tree when the directory of each entry is an entry.
Closed(paths) ==
  \A p \in paths : Len(p) > 1 => SubSeq(p, 1, Len(p) - 1) \in paths

\* The directories _verify_and_fix_build accepts: at least one web file.
VerifiedTrees ==
  {[p \in paths |-> KindOf(p)] :
     paths \in {ps \in SUBSET EntryPaths :
                  /\ Closed(ps)
                  /\ \E p \in ps : KindOf(p) = "file"
                                   /\ Suffix(p[Len(p)]) \in {".html", ".js", ".css"}}}

\* build_dir.rglob('*'): every entry below the directory, of either kind.
RglobAll(tree) == DOMAIN tree

\* Path.is_file()
IsFile(tree, path) == tree[path] = "file"

\* len(list(...))
LenOf(entries) == Cardinality(entries)

\* The loop of deploy_version: uploaded_files += 1 for each file.
RECURSIVE UploadAll(_, _)
UploadAll(files_to_upload, uploaded_files) ==
  IF files_to_upload = {} THEN uploaded_files
  ELSE LET file_path == CHOOSE f \in files_to_upload : TRUE
       IN UploadAll(files_to_upload \ {file_path}, uploaded_files + 1)

\* build_and_prepare_for_deployment, after the verification:
\* file_count = len(list(build_dir.rglob('*'))), returned as total_files.
CountBuildFiles ==
  /\ count.pc = "verified"
  /\ count' = [count EXCEPT
       !.pc = "returned",
       !.file_count = LenOf(RglobAll(count.tree))]
  /\ UNCHANGED <<release_vars, host, build, html, command_vars, monitor, purge>>

\* deploy_version on the same directory, every upload succeeding.
CountUploadedFiles ==
  /\ count.pc = "returned"
  /\ LET files_to_upload == {f \in RglobAll(count.tree) : IsFile(count.tree, f)}
     IN count' = [count EXCEPT
          !.pc = "uploaded",
          !.uploaded_files = UploadAll(files_to_upload, 0)]
  /\ UNCHANGED <<release_vars, host, build, html, command_vars, monitor, purge>>

InitCount ==
  /\ bucket = EmptyBucket
  /\ clients = {"c1"}
  /\ pc = [c \in Clients |-> "idle"]
  /\ call = [c \in Clients |-> NoCall]
  /\ quota = Unlimited
  /\ tenants = {"shop"}
  /\ snapshots = {}
  /\ host = [c \in Clients |-> NoTree]
  /\ build = NoBuild
  /\ html = NoPage
  /\ cmd = [c \in Clients |-> NoCommand]
  /\ config = NoConfig
  /\ count \in {[NoCount EXCEPT !.pc = "verified", !.tree = t] :
                  t \in VerifiedTrees}
  /\ monitor = NoMonitor
  /\ purge = NoPurge

NextCount ==
  \/ CountBuildFiles
  \/ CountUploadedFiles

SpecCount == InitCount /\ [][NextCount]_vars

\* ------------------------------------------- the batches of _clear_prefix
\* objects_to_delete is the listing of n distinct keys; a key is named by
\* its position in the listing.
\* Mutant: a slice that is one key too long.
BatchOneTooLong(i, n) ==
  (i + 1)..(IF i + DeleteBatch + 1 < n THEN i + DeleteBatch + 1 ELSE n)

\* objects_to_delete[i:i+1000], for a listing of n keys
Batch(i, n) == (i + 1)..(IF i + DeleteBatch < n THEN i + DeleteBatch ELSE n)

\* One turn of 'for i in range(0, len(objects_to_delete), 1000)': one
\* delete_objects call.
ClearPrefixBatch ==
  /\ purge.pc = "listed"
  /\ purge.i < purge.n
  /\ purge' = [purge EXCEPT
       !.i = @ + DeleteBatch,
       !.batches = Append(@, Batch(purge.i, purge.n))]
  /\ UNCHANGED <<release_vars, host, build_vars, command_vars, monitor>>

\* The range is used up, or the listing was empty: _clear_prefix returns.
ClearPrefixReturns ==
  /\ purge.pc = "listed"
  /\ purge.i >= purge.n
  /\ purge' = [purge EXCEPT !.pc = "returned"]
  /\ UNCHANGED <<release_vars, host, build_vars, command_vars, monitor>>

InitPurge ==
  /\ bucket = EmptyBucket
  /\ clients = {"c1"}
  /\ pc = [c \in Clients |-> "idle"]
  /\ call = [c \in Clients |-> NoCall]
  /\ quota = Unlimited
  /\ tenants = {"shop"}
  /\ snapshots = {}
  /\ host = [c \in Clients |-> NoTree]
  /\ build = NoBuild
  /\ html = NoPage
  /\ cmd = [c \in Clients |-> NoCommand]
  /\ config = NoConfig
  /\ count = NoCount
  /\ monitor = NoMonitor
  /\ purge \in {[NoPurge EXCEPT !.pc = "listed", !.n = n] : n \in 0..MaxObjects}

NextPurge ==
  \/ ClearPrefixBatch
  \/ ClearPrefixReturns

SpecPurge == InitPurge /\ [][NextPurge]_vars

\* ---------------------------------------------------- the discovery service
\* _has_current_deployment: one key under {project}/current/ is enough.
HasCurrentDeployment(b, project_name) ==
  ListObjects(b, CurrentPrefix(project_name)) # <<>>

\* discover_deployments with no error: the first-level prefixes of the
\* bucket that have a current deployment.
DeployedProjects(b) ==
  {project_name \in {k[1] : k \in DOMAIN b} :
     HasCurrentDeployment(b, project_name)}

\* What discover_deployments may return: a listing or a probe that raises
\* is logged and leaves projects out.
Discoveries(b) == SUBSET DeployedProjects(b)

\* current_deployments != self.previous_deployments
Changed(current_deployments, previous_deployments) ==
  current_deployments # previous_deployments

\* Where a cycle's writing may raise, and how the reload request may end.
WriteFaults == {"none", "targets", "backup", "grafana"}

ReloadResults == {"ok", "status", "error"}

\* A file after open(..., 'w') and json.dump: written whole, or, when the
\* write raised, left as it was or cut off.
Written(projects) == [written |-> TRUE, projects |-> projects]

AfterFailedWrite(file) == {file, [written |-> TRUE, projects |-> {"(cut off)"}]}

\* One call of discover_and_update.
DiscoverAndUpdate(current_deployments, fault) ==
  /\ current_deployments \in Discoveries(bucket)
  /\ LET previous == monitor.previous_deployments
         seen == [current |-> current_deployments, wrote |-> FALSE,
                  reload |-> "none", fault |-> "none"]
         tried == [seen EXCEPT !.wrote = TRUE, !.fault = fault]
     IN IF ~Changed(current_deployments, previous)
        THEN /\ fault = "none"
             /\ monitor' = [monitor EXCEPT !.last = seen]
        ELSE IF fault = "targets"
        THEN \E left \in AfterFailedWrite(monitor.targets) :
               monitor' = [monitor EXCEPT !.targets = left, !.last = tried]
        ELSE IF fault = "backup"
        THEN monitor' = [monitor EXCEPT
               !.targets = Written(current_deployments), !.last = tried]
        ELSE IF fault = "grafana"
        THEN \E left \in AfterFailedWrite(monitor.grafana) :
               monitor' = [monitor EXCEPT
                 !.targets = Written(current_deployments),
                 !.grafana = left, !.last = tried]
        ELSE \E reload \in ReloadResults :
               monitor' = [monitor EXCEPT
                 !.targets = Written(current_deployments),
                 !.grafana = Written(current_deployments),
                 !.previous_deployments = current_deployments,
                 !.last = [tried EXCEPT !.reload = reload]]
  /\ UNCHANGED <<release_vars, host, build_vars, command_vars, purge>>

\* Both projects have versions in the bucket and are live.
InitDiscovery ==
  /\ bucket = DeployedBucket
  /\ clients = {"c1"}
  /\ pc = [c \in Clients |-> "idle"]
  /\ call = [c \in Clients |-> NoCall]
  /\ quota = Unlimited
  /\ tenants = Projects
  /\ snapshots = {<<"shop", <<"v1">>>>, <<"shop", <<"v2">>>>, <<"blog", <<"v1">>>>}
  /\ host = [c \in Clients |-> NoTree]
  /\ build = NoBuild
  /\ html = NoPage
  /\ cmd = [c \in Clients |-> NoCommand]
  /\ config = NoConfig
  /\ count = NoCount
  /\ monitor = NoMonitor
  /\ purge = NoPurge

\* The service runs its cycles while rollbacks and deploys activate versions.
NextDiscovery ==
  \/ \E ps \in SUBSET Projects, f \in WriteFaults : DiscoverAndUpdate(ps, f)
  \/ \E c \in Clients :
       \/ \E p \in Projects : ActivateVersion(c, p, <<"v1">>)
       \/ ClearList(c)
       \/ ClearDelete(c)
       \/ ClearFails(c)
       \/ CopyList(c)
       \/ CopyObject(c)
       \/ CopyFails(c)

SpecDiscovery == InitDiscovery /\ [][NextDiscovery]_vars

\* ------------------------------------------------- the commands of the tool
\* config['project']['name'] of the configuration the commands load.
ProjectName == "shop"

\* The --version values tried.
CommandVersions == {<<"v1">>, <<"v2">>}

\* Client c runs the command and is between two calls of it.
Running(c, name) ==
  /\ c \in clients
  /\ cmd[c].name = name
  /\ pc[c] = "idle"

\* The last call of the command of c was op and returned.
CallReturned(c, op) ==
  /\ pc[c] = "idle"
  /\ call[c].op = op
  /\ call[c].outcome = "ok"

\* The command of c has made no call yet.
NotCalled(c) == call[c].op = "none"

\* Mutant: the version is activated whether or not it is listed.
ListedAlways(version, versions) == TRUE

\* version in available_versions
Listed(version, versions) == version \in Range(versions)

\* Mutant: the configuration is saved when activate has ended, however.
MaySaveAfterAnyActivate(c) == pc[c] = "idle" /\ call[c].op = "activate"

\* deploy.py:86-91, rollback.py:49-53: the lines after activate_version are
\* reached when it returned.
MaySave(c) == CallReturned(c, "activate")

\* Mutant: the version is activated after an upload that raised.
MayActivateAfterAnyUpload(c) == pc[c] = "idle" /\ call[c].op = "upload"

\* deploy.py:78-86: activate_version is reached when deploy_version returned.
MayActivate(c) == CallReturned(c, "upload")

\* The process of the command ends: its locals and its working tree handle
\* go, its cleanup thread dies with it.
Exit(c, status) ==
  /\ cmd' = [cmd EXCEPT ![c] =
       [NoCommand EXCEPT !.exit = status, !.last = cmd[c].name,
                         !.version = cmd[c].version, !.runs = cmd[c].runs]]
  /\ pc' = [pc EXCEPT ![c] = "idle"]
  /\ call' = [call EXCEPT ![c] = NoCall]
  /\ host' = [host EXCEPT ![c] = NoTree]

\* The user may run another command.
CanRun(c) ==
  /\ Running(c, "none")
  /\ cmd[c].runs < MaxCommands

Started(c, name, version, keep, build_only) ==
  [name |-> name, version |-> version, keep |-> keep,
   build_only |-> build_only, exit |-> "none", last |-> cmd[c].last,
   runs |-> cmd[c].runs + 1]

\* deploy --version v [--build-only]
StartDeploy(c, version, build_only) ==
  /\ CanRun(c)
  /\ cmd' = [cmd EXCEPT ![c] = Started(c, "deploy", version, 0, build_only)]
  /\ UNCHANGED <<release_vars, host, build_vars, monitor, purge, config>>

\* rollback --version v
StartRollback(c, version) ==
  /\ CanRun(c)
  /\ cmd' = [cmd EXCEPT ![c] = Started(c, "rollback", version, 0, FALSE)]
  /\ UNCHANGED <<release_vars, host, build_vars, monitor, purge, config>>

\* versions --cleanup --keep n
StartCleanup(c, keep) ==
  /\ CanRun(c)
  /\ cmd' = [cmd EXCEPT ![c] = Started(c, "cleanup", NoVersion, keep, FALSE)]
  /\ UNCHANGED <<release_vars, host, build_vars, monitor, purge, config>>

\* Before the first call of a command: no configuration file, expired
\* credentials, or (deploy) a clone that fails; the command exits with 1.
PreflightFails(c) ==
  /\ \E name \in {"deploy", "rollback", "cleanup"} : Running(c, name)
  /\ NotCalled(c)
  /\ Exit(c, "preflight")
  /\ UNCHANGED <<bucket, clients, quota, tenants, snapshots, build_vars,
               monitor, purge, config>>

\* deploy, step 2: the build returns the build output.
DeployBuild(c, build_output) ==
  /\ Running(c, "deploy")
  /\ NotCalled(c)
  /\ BuildAndPrepare(c, build_output)

DeployBuildFails(c) ==
  /\ Running(c, "deploy")
  /\ NotCalled(c)
  /\ BuildAndPrepareFails(c)

\* deploy --build-only returns after the build.
BuildOnlyReturns(c) ==
  /\ Running(c, "deploy")
  /\ cmd[c].build_only
  /\ CallReturned(c, "build")
  /\ Exit(c, "ok")
  /\ UNCHANGED <<bucket, clients, quota, tenants, snapshots, build_vars,
               monitor, purge, config>>

\* deploy, step 3: deploy_version on what the build directory holds now.
DeployUpload(c) ==
  /\ Running(c, "deploy")
  /\ ~cmd[c].build_only
  /\ CallReturned(c, "build")
  /\ DeployVersion(c, ProjectName, cmd[c].version, Rglob(host[c]))

\* deploy, step 4.
DeployActivate(c) ==
  /\ Running(c, "deploy")
  /\ MayActivate(c)
  /\ ActivateVersion(c, ProjectName, cmd[c].version)

\* config['project']['current_version'] = version; save_config(config).
SaveConfig(c) ==
  /\ \E name \in {"deploy", "rollback"} : Running(c, name)
  /\ MaySave(c)
  /\ config' = [config EXCEPT !.current_version = cmd[c].version]
  /\ Exit(c, "ok")
  /\ UNCHANGED <<bucket, clients, quota, tenants, snapshots, build_vars,
               monitor, purge>>

\* save_config cannot open the file for writing: the command exits with 1.
SaveConfigFails(c) ==
  /\ \E name \in {"deploy", "rollback"} : Running(c, name)
  /\ MaySave(c)
  /\ Exit(c, "not_saved")
  /\ UNCHANGED <<bucket, clients, quota, tenants, snapshots, build_vars,
               monitor, purge, config>>

\* A call of the command raised: "except Exception", the command ends.
CommandFails(c) ==
  /\ \E name \in {"deploy", "rollback", "cleanup"} : Running(c, name)
  /\ call[c].outcome = "error"
  /\ Exit(c, "error")
  /\ UNCHANGED <<bucket, clients, quota, tenants, snapshots, build_vars,
               monitor, purge, config>>

\* Ctrl-C: the command ends where it stands, in the middle of a call or
\* between two.
CommandInterrupted(c) ==
  /\ c \in clients
  /\ cmd[c].name \in {"deploy", "rollback", "cleanup"}
  /\ Exit(c, "interrupted")
  /\ UNCHANGED <<bucket, clients, quota, tenants, snapshots, build_vars,
               monitor, purge, config>>

\* rollback: available_versions = list_versions(project).
RollbackCheck(c) ==
  /\ Running(c, "rollback")
  /\ NotCalled(c)
  /\ ListVersions(c, ProjectName)

RollbackCheckFails(c) ==
  /\ Running(c, "rollback")
  /\ NotCalled(c)
  /\ ListVersionsFails(c, ProjectName)

\* rollback: "Version not found", sys.exit(1).
RollbackRejects(c) ==
  /\ Running(c, "rollback")
  /\ CallReturned(c, "list")
  /\ ~Listed(cmd[c].version, call[c].versions)
  /\ Exit(c, "not_found")
  /\ UNCHANGED <<bucket, clients, quota, tenants, snapshots, build_vars,
               monitor, purge, config>>

RollbackActivate(c) ==
  /\ Running(c, "rollback")
  /\ CallReturned(c, "list")
  /\ Listed(cmd[c].version, call[c].versions)
  /\ ActivateVersion(c, ProjectName, cmd[c].version)

\* versions --cleanup: cleanup_old_versions(project, keep).
VersionsCleanup(c) ==
  /\ Running(c, "cleanup")
  /\ NotCalled(c)
  /\ CleanupOldVersions(c, ProjectName, cmd[c].keep)

VersionsCleanupFails(c) ==
  /\ Running(c, "cleanup")
  /\ NotCalled(c)
  /\ CleanupOldVersionsFails(c, ProjectName, cmd[c].keep)

\* versions --cleanup has printed the count.
CleanupReturns(c) ==
  /\ Running(c, "cleanup")
  /\ CallReturned(c, "cleanup")
  /\ Exit(c, "ok")
  /\ UNCHANGED <<bucket, clients, quota, tenants, snapshots, build_vars,
               monitor, purge, config>>

\* Commands of one user in one project directory, one after the other.
NextCommands ==
  \E c \in Clients :
    \/ \E v \in CommandVersions, b \in BOOLEAN : StartDeploy(c, v, b)
    \/ \E v \in CommandVersions : StartRollback(c, v)
    \/ \E k \in KeepCounts : StartCleanup(c, k)
    \/ PreflightFails(c)
    \/ \E o \in BuildOutputs : DeployBuild(c, o)
    \/ DeployBuildFails(c)
    \/ BuildOnlyReturns(c)
    \/ DeployUpload(c)
    \/ DeployActivate(c)
    \/ SaveConfig(c)
    \/ SaveConfigFails(c)
    \/ CommandFails(c)
    \/ CommandInterrupted(c)
    \/ RollbackCheck(c)
    \/ RollbackCheckFails(c)
    \/ RollbackRejects(c)
    \/ RollbackActivate(c)
    \/ VersionsCleanup(c)
    \/ VersionsCleanupFails(c)
    \/ CleanupReturns(c)
    \/ CleanupAfterDelay(c)
    \/ \E f \in RelPaths : UploadFile(c, f)
    \/ UploadFileFails(c)
    \/ ClearList(c)
    \/ ClearDelete(c)
    \/ ClearFails(c)
    \/ CopyList(c)
    \/ CopyObject(c)
    \/ CopyFails(c)

SpecCommands == Init /\ [][NextCommands]_vars


\* ============================================================== properties
Current(p) == FileSet(bucket, CurrentPrefix(p))

Snapshot(p, v) == FileSet(bucket, VersionPrefix(p, v))

\* The objects under some {project}/builds/.
BuildObjects(b) == [k \in {x \in DOMAIN b : x[2] = "builds"} |-> b[k]]

Finished(c, op) ==
  /\ c \in clients
  /\ pc[c] = "idle"
  /\ call[c].op = op
  /\ call[c].outcome # "none"

Succeeded(c, op) == Finished(c, op) /\ call[c].outcome = "ok"

\* Client c takes this step.
Acting(c) == <<pc[c], call[c]>> # <<pc'[c], call'[c]>>

\* The operation the step of c belongs to.
StepCall(c) == IF pc[c] = "idle" THEN call'[c] ELSE call[c]

\* current/ is the complete file set of a version stored under builds/.
Complete(p) == \E v \in Versions : Snapshot(p, v) # {} /\ Current(p) = Snapshot(p, v)

\* C1: when activate(project, v) of a stored version v returns normally,
\* current/ has exactly the relative keys of builds/v/, each object with the
\* content and metadata of its source, and nothing of the previous content of
\* current/ is left.
C1_ActivateInstallsVersion ==
  \A c \in clients :
    (Succeeded(c, "activate") /\ Snapshot(call[c].project, call[c].version) # {})
      => /\ Current(call[c].project) = Snapshot(call[c].project, call[c].version)
         /\ \A o \in call[c].pre :
              o \in Current(call[c].project)
                => o \in Snapshot(call[c].project, call[c].version)

C3_ActivateAllOrNothing ==
  \A c \in clients :
    Finished(c, "activate")
      => \/ /\ call[c].outcome = "ok"
            /\ Current(call[c].project) = Snapshot(call[c].project, call[c].version)
         \/ /\ call[c].outcome = "error"
            /\ Current(call[c].project) = call[c].pre

\* C4: a status call that directly follows a normal return of
\* activate(project, v), for any identifier v, and whose probe is answered,
\* reports is_deployed = true and a website_url that contains the project name.
C4_StatusAfterActivate ==
  [][ \A c \in clients :
        ( /\ Succeeded(c, "activate")
          /\ call'[c].op = "status"
          /\ call'[c].project = call[c].project
          /\ ~call'[c].s3_error )
          => /\ call'[c].is_deployed
             /\ call[c].project \in Range(call'[c].url) ]_vars

\* C5: after cleanup(project, N) returns, with V the versions stored when it
\* was called, listVersions(project) is the min(N, |V|) greatest identifiers
\* of V and the returned count is |V| - min(N, |V|).
C5_CleanupKeepsNewest ==
  \A c \in clients :
    Succeeded(c, "cleanup")
      => LET V == call[c].versions
             kept == IF call[c].keep < Len(V) THEN call[c].keep ELSE Len(V)
         IN /\ VersionList(bucket, call[c].project) = SubSeq(V, 1, kept)
            /\ call[c].n = Len(V) - kept

\* C6: after upload(project, v, artifact) of a non-empty artifact returns
\* normally, listVersions(project) contains v; and every identifier that
\* listVersions returns has at least one object under builds/{identifier}/.
C6_UploadedVersionListed ==
  /\ \A c \in clients :
       Succeeded(c, "upload")
         => call[c].version \in Range(VersionList(bucket, call[c].project))
  /\ \A c \in clients :
       Succeeded(c, "list")
         => \A id \in Range(call[c].versions) : Snapshot(call[c].project, id) # {}
  /\ \A p \in Projects :
       \A id \in Range(VersionList(bucket, p)) : Snapshot(p, id) # {}

\* C7: an object-store error during upload, activate (deletion or copy phase)
\* or cleanup makes the operation fail; errors are silently ignored only
\* during the website/policy setup.
C7_ErrorsPropagate ==
  \A c \in clients :
    /\ call[c].swallowed => call[c].op = "setup"
    /\ (Finished(c, call[c].op) /\ call[c].op \in {"upload", "activate", "cleanup"}
          /\ call[c].s3_error)
         => call[c].outcome = "error"

\* C8: once upload(project, v, .) has returned normally, the objects under
\* builds/v/ change only when a cleanup deletes v; no other step, and no later
\* upload with the same identifier, alters, replaces or adds an object.
C8_SnapshotImmutable ==
  [][ \A s \in snapshots :
        Snapshot(s[1], s[2])' # Snapshot(s[1], s[2])
          => \E c \in clients : /\ Acting(c)
                                /\ call[c].op = "cleanup"
                                /\ pc[c] = "clear_delete"
                                /\ Len(call[c].prefix) <= Len(VersionPrefix(s[1], s[2]))
                                /\ call[c].prefix =
                                     SubSeq(VersionPrefix(s[1], s[2]), 1,
                                            Len(call[c].prefix)) ]_vars

\* C9: current/ of a project is changed only by steps of activate for that
\* project, never by upload, listVersions, status or cleanup; and no step of
\* activate changes an object under builds/.
C9_Frame ==
  [][ \A c \in clients :
        Acting(c)
          => /\ \A p \in Projects :
                  Current(p)' # Current(p)
                    => /\ StepCall(c).op = "activate"
                       /\ StepCall(c).project = p
             /\ StepCall(c).op = "activate"
                  => BuildObjects(bucket') = BuildObjects(bucket) ]_vars

\* An activate call has replaced the live files of shop by those of v2
\* while v1, live before, is still stored.
C9_Witness ==
  \E c \in clients :
    /\ Succeeded(c, "activate")
    /\ call[c].project = "shop"
    /\ call[c].version = <<"v2">>
    /\ call[c].pre = Snapshot("shop", <<"v1">>)
    /\ Snapshot("shop", <<"v1">>) # {}
    /\ Current("shop") = Snapshot("shop", <<"v2">>)
    /\ Current("shop") # call[c].pre
    /\ Current("blog") # {}

\* Both commands have returned normally from activate of the same project,
\* for different versions, without any object-store error.
BothActivated(c, d) ==
  /\ c # d
  /\ Succeeded(c, "activate") /\ Succeeded(d, "activate")
  /\ call[c].project = call[d].project
  /\ call[c].version # call[d].version
  /\ ~call[c].s3_error /\ ~call[d].s3_error

\* C10: nothing keeps a command from starting activate while another command
\* is in the middle of one; and when two activate calls for different versions
\* of one project have both returned normally, current/ holds nothing but
\* objects of these two versions (possibly some of each).
C10_ActivateUnlocked ==
  /\ \A c \in clients, p \in tenants, v \in Versions :
       (pc[c] = "idle" /\ HasQuota) => ENABLED ActivateVersion(c, p, v)
  /\ \A c, d \in clients :
       BothActivated(c, d)
         => Current(call[c].project) \subseteq
              Snapshot(call[c].project, call[c].version)
                \cup Snapshot(call[d].project, call[d].version)

\* Both activate calls returned normally and current/ is the file set of
\* neither version: it holds an object of each.
C10_Witness ==
  \E c, d \in clients :
    /\ BothActivated(c, d)
    /\ Current(call[c].project) # Snapshot(call[c].project, call[c].version)
    /\ Current(call[c].project) # Snapshot(call[d].project, call[d].version)
    /\ Current(call[c].project) \ Snapshot(call[c].project, call[c].version) # {}
    /\ Current(call[c].project) \ Snapshot(call[d].project, call[d].version) # {}

\* An activate call and a cleanup call of the same project, started by two
\* commands and the only operations started so far; the activate call has
\* returned normally and met no object-store error.
ActivateRacedCleanup(c, d) ==
  /\ c # d
  /\ Succeeded(c, "activate")
  /\ ~call[c].s3_error
  /\ call[d].op = "cleanup"
  /\ call[d].project = call[c].project
  /\ quota = Limited(MaxConcurrentOps - 2)

\* C11: nothing keeps a command from starting cleanup while another command
\* is in the middle of activate; and when activate(project, v) has returned
\* normally beside such a cleanup, current/ holds nothing but objects that
\* builds/v/ held when the activate call started (all of them, some, or none).
C11_ActivateRacesCleanup ==
  /\ \A c \in clients, p \in tenants, k \in KeepCounts :
       (pc[c] = "idle" /\ HasQuota) => ENABLED CleanupOldVersions(c, p, k)
  /\ \A c, d \in clients :
       ActivateRacedCleanup(c, d) => Current(call[c].project) \subseteq call[c].src

\* activate(shop, v1) returned normally although a cleanup deleted v1 under
\* it: v1 had files when the call started, and current/ ends with none.
C11_Witness ==
  \E c, d \in clients :
    /\ ActivateRacedCleanup(c, d)
    /\ Succeeded(d, "cleanup")
    /\ call[d].n >= 1
    /\ call[c].src # {}
    /\ call[c].pre # {}
    /\ Snapshot(call[c].project, call[c].version) = {}
    /\ Current(call[c].project) = {}
    /\ Current(call[c].project) # call[c].src

\* C12: the build output handed to deploy_version is on the disk as long as
\* the upload of a deploy command is enumerating or reading its files: the
\* background deletion of the working tree does not happen during it.
C12_ArtifactIntactDuringUpload ==
  \A c \in clients :
    (pc[c] = "upload" /\ host[c].tree # "none") => host[c].tree = "present"

\* C13: deploy_version on a build directory without files raises, stores no
\* object and leaves the whole bucket as it is, so that list_versions gives
\* the same before and after.
C13_EmptyUploadFails ==
  [][ \A c \in clients, p \in Projects, v \in Versions :
        DeployVersion(c, p, v, EmptyDir)
          => /\ pc'[c] = "idle"
             /\ call'[c].outcome = "error"
             /\ call'[c].n = 0
             /\ bucket' = bucket
             /\ VersionList(bucket', p) = VersionList(bucket, p) ]_vars

\* An upload of an empty build directory has failed beside stored versions
\* and a live site, without any object-store call.
C13_Witness ==
  \E c \in clients :
    /\ Finished(c, "upload")
    /\ call[c].outcome = "error"
    /\ ~call[c].s3_error
    /\ call[c].n = 0
    /\ Len(VersionList(bucket, call[c].project)) >= 1
    /\ Current(call[c].project) # {}

\* The dependency names of the detection table in their order of priority,
\* and the framework and output directory the table gives for each.
DetectionOrder ==
  <<"vite", "next", "@angular/core", "vue", "react-scripts", "react">>

DetectionTable ==
  <<(<<"vite", "dist">>), (<<"next", ".next">>), (<<"angular", "dist">>),
    (<<"vue", "dist">>), (<<"react", "build">>), (<<"react", "build">>)>>

\* C14: for a package.json with its two dependency groups, detection returns
\* the table entry of the first name of the priority order found in the
\* merged groups, and (node, dist) when none of the names is found.
C14_DetectPriority ==
  (build.pc = "prepare" /\ build.manifest.kind = "ok")
    => LET merged == build.manifest.dependencies \cup build.manifest.devDependencies
           present == {i \in 1..Len(DetectionOrder) : DetectionOrder[i] \in merged}
           first == CHOOSE i \in present : \A j \in present : i <= j
           result == <<build.framework, build.build_dir_name>>
       IN IF present = {} THEN result = <<"node", "dist">>
          ELSE result = DetectionTable[first]

\* Detection has run on a package.json that declares react and vue in one
\* group and vite in no group, and has returned (vue, dist).
C14_Witness ==
  /\ build.pc = "prepare"
  /\ build.manifest.kind = "ok"
  /\ build.manifest.dependencies = {"react", "vue"}
  /\ build.manifest.devDependencies = {"lodash"}
  /\ build.framework = "vue"
  /\ build.build_dir_name = "dist"

\* A command of a ladder ended with a non-zero exit or a timeout.
Failed(attempt) == attempt.result \in {"fail", "timeout"}

\* The install ladder has returned to _build_project_robust.
InstallReturned == build.pc \in {"ladder", "built"} \/ build.builds # <<>>

\* The install ladder has raised.
InstallRaised == build.pc = "raised" /\ build.builds = <<>>

\* The install strategies in the order claimed.
InstallOrder ==
  <<"npm ci", "npm install", "npm install --legacy-peer-deps", "yarn install">>

\* C15: the install strategies run in the order npm ci, npm install,
\* npm install --legacy-peer-deps, yarn install (yarn only if on the host);
\* a strategy runs only after all before it failed, and then it does run;
\* install returns exactly when one of them succeeded, and none runs after it.
C15_InstallLadder ==
  LET log == build.installs
      n == Len(log)
      all == IF build.yarn THEN 4 ELSE 3
  IN /\ n <= all
     /\ \A i \in 1..n : log[i].strategy = i /\ log[i].command = InstallOrder[i]
     /\ \A i \in 1..n : i < n => Failed(log[i])
     /\ InstallReturned <=> (n >= 1 /\ log[n].result = "ok")
     /\ InstallRaised <=> (n = all /\ \A i \in 1..n : Failed(log[i]))
     /\ build.pc = "install" => (n < all /\ \A i \in 1..n : Failed(log[i]))

\* On a host with yarn the first three strategies failed, one by a timeout,
\* and yarn install succeeded: install has returned.
C15_Witness ==
  /\ build.pc = "ladder"
  /\ Len(build.installs) = 4
  /\ build.installs[2].result = "timeout"
  /\ build.installs[3].result = "fail"
  /\ build.installs[4].command = "yarn install"
  /\ build.installs[4].result = "ok"

\* C16: no failure is raised while an install strategy is left to try; when
\* all have failed, the error raised lists the failure of each strategy tried.
C16_InstallErrorListsFailures ==
  /\ build.pc = "install" => build.error = NoError
  /\ InstallRaised
       => /\ Len(build.error.failures) = Len(build.installs)
          /\ \A i \in 1..Len(build.installs) :
               build.error.failures[i] = build.installs[i]

\* C17: the build strategies run in order, each at most once and only after
\* all before it failed, strategies 3 and 4 for vite only; the build is
\* reported as done exactly when one succeeded, under the name of that
\* strategy and with no error: strategy 2 after a failed strategy 1 included.
C17_BuildLadder ==
  LET log == build.builds
      n == Len(log)
  IN /\ \A i \in 1..n : log[i].strategy = i
     /\ \A i \in 1..n : i < n => Failed(log[i])
     /\ n > 2 => build.framework = "vite"
     /\ n <= 4
     /\ build.pc = "built" <=> (n >= 1 /\ log[n].result = "ok")
     /\ (build.pc = "built" /\ build.outcome = "none") => build.error = NoError
     /\ (n = 2 /\ log[2].result = "ok")
          => build.report = "Framework-specific build completed"

\* For a next project the declared build script failed and npx next build
\* succeeded: the build is done.
C17_Witness ==
  /\ build.framework = "next"
  /\ build.pc = "built"
  /\ Len(build.builds) = 2
  /\ build.builds[1].command = "npm run build"
  /\ build.builds[1].result = "fail"
  /\ build.builds[2].command = "npx next build"
  /\ build.report = "Framework-specific build completed"

\* C18: when every build strategy there is for the framework has failed, the
\* error raised carries one entry for each strategy tried.
C18_BuildErrorListsFailures ==
  (build.pc = "raised" /\ build.builds # <<>>)
    => /\ Len(build.error.failures) = Len(build.builds)
       /\ \A i \in 1..Len(build.builds) :
            build.error.failures[i] = build.builds[i]

\* C19: however strategy 4 ends, vite.config.js is there afterwards exactly
\* if it was there before strategy 4 began, and with the same content.
C19_ConfigRestored ==
  Len(build.builds) = 4 => build.config = build.config0

\* A reference that begins at the root stands at position i of the content:
\* the value of a src, href or action attribute, or a url().
RootAbsoluteAt(s, i) ==
  \/ /\ i + 3 <= Len(s)
     /\ s[i] \in CommonAttributes
     /\ s[i + 1] = "=" /\ s[i + 2] = "\"" /\ s[i + 3] = "/"
  \/ i + 1 <= Len(s) /\ s[i] = "url(" /\ s[i + 1] = "/"

\* C20: fixing the asset paths of a page a second time changes nothing, and
\* after the first time no reference that begins at the root is left and none
\* has two markers.
C20_NormalizeIdempotent ==
  /\ html.passes >= 2 => html.content = html.first
  /\ html.passes >= 1
       => \A i \in 1..Len(html.content) :
            /\ ~RootAbsoluteAt(html.content, i)
            /\ i < Len(html.content)
                 => ~(html.content[i] = "." /\ html.content[i + 1] = ".")

\* build_and_prepare_for_deployment has raised.
BuildRaised == build.pc = "raised" \/ build.outcome = "raised"

\* C21: build_and_prepare_for_deployment returns an artifact only after a
\* successful install strategy and a successful build strategy, with the
\* build directory there and a .html, .js or .css file in it; in every other
\* case in which it has ended it has raised and there is no artifact.
C21_ArtifactOnlyIfVerified ==
  LET installs == build.installs
      builds == build.builds
      web == {f \in build.output.files : Suffix(f) \in {".html", ".js", ".css"}}
      good == /\ installs # <<>> /\ installs[Len(installs)].result = "ok"
              /\ builds # <<>> /\ builds[Len(builds)].result = "ok"
              /\ build.output.exists
              /\ web # {}
  IN /\ build.outcome = "returned"
          => good /\ build.artifact = build.output.files /\ build.error = NoError
     /\ build.outcome = "raised" => ~good
     /\ BuildRaised => build.artifact = {} /\ build.error # NoError
     /\ ~(build.outcome = "returned" /\ build.pc = "raised")
     /\ (build.pc = "built" /\ build.outcome = "none")
          => \A o \in BuildDirStates : ENABLED VerifyAndFixBuild(o)

\* A vite build whose third strategy built returns a directory that holds a
\* script beside a picture.
C21_Witness ==
  /\ build.outcome = "returned"
  /\ Len(build.builds) = 3
  /\ build.artifact = {"app.js", "logo.png"}

\* The first-level names under {project}/builds/ in a bucket.
FirstLevelNames(b, p) ==
  {k[3] : k \in {x \in DOMAIN b : Len(x) >= 4 /\ x[1] = p /\ x[2] = "builds"}}

\* C22: what list_versions(project) returns holds every first-level name
\* under {project}/builds/ and nothing else, so no name of another project,
\* and each later entry is smaller than the one before it in string order, so
\* no name comes twice.
C22_ListVersionsSorted ==
  [][\A c \in Clients, p \in Projects :
       ListVersions(c, p)
         => LET vs == call'[c].versions
            IN /\ call'[c].outcome = "ok"
               /\ {vs[i] : i \in 1..Len(vs)}
                    = {<<n>> : n \in FirstLevelNames(bucket, p)}
               /\ \A i \in 1..Len(vs) : Len(vs[i]) = 1
               /\ \A i \in 1..Len(vs) : \A j \in 1..Len(vs) :
                    i < j => StrRank(vs[j][1]) < StrRank(vs[i][1])]_vars

\* list_versions('shop') has returned v3, v2, v1 while blog has a version.
C22_Witness ==
  \E c \in clients :
    /\ Succeeded(c, "list")
    /\ call[c].project = "shop"
    /\ call[c].versions = <<(<<"v3">>), (<<"v2">>), (<<"v1">>)>>
    /\ Snapshot("blog", <<"v1">>) # {}

\* At least one object is stored under {project}/current/.
HasCurrentObject(b, p) ==
  \E k \in DOMAIN b : Len(k) >= 3 /\ k[1] = p /\ k[2] = "current"

\* C23 (as claimed): status(project) reports is_deployed exactly if an object
\* is stored under {project}/current/ at the time of the probe.
C23_StatusIffCurrent ==
  \A c \in clients :
    Succeeded(c, "status")
      => (call[c].is_deployed <=> HasCurrentObject(bucket, call[c].project))

\* C23 (amended): when the probe returns, status(project) reports is_deployed
\* exactly if an object is stored under {project}/current/, whatever builds/
\* holds, and a website_url exactly then; when the probe raises, it reports
\* is_deployed = false and no website_url, whatever is stored.
C23_StatusProbesCurrent ==
  [][\A c \in Clients, p \in Projects :
       /\ GetProjectStatus(c, p)
            => /\ call'[c].is_deployed <=> HasCurrentObject(bucket, p)
               /\ call'[c].url # NoUrl <=> call'[c].is_deployed
               /\ call'[c].is_deployed => call'[c].url = WebsiteUrl(p)
               /\ bucket' = bucket
       /\ GetProjectStatusFails(c, p)
            => /\ ~call'[c].is_deployed
               /\ call'[c].url = NoUrl
               /\ call'[c].outcome = "ok"
               /\ bucket' = bucket]_vars

\* status('shop') reports a deployment after a cleanup has removed the
\* builds/ objects of the version that was activated: current/ still holds
\* its files and builds/ holds another version only.
C23_Witness ==
  \E c \in clients :
    /\ Succeeded(c, "status")
    /\ ~call[c].s3_error
    /\ call[c].is_deployed
    /\ call[c].url = WebsiteUrl("shop")
    /\ Snapshot("shop", <<"v1">>) = {}
    /\ Snapshot("shop", <<"v2">>) # {}
    /\ Current("shop") # Snapshot("shop", <<"v2">>)

\* The keys under {project}/current/ in a bucket.
CurrentKeys(b, p) ==
  {k \in DOMAIN b : Len(k) >= 3 /\ k[1] = p /\ k[2] = "current"}

\* The call is in _clear_prefix.
Clearing(c) == pc[c] \in {"clear_list", "clear_delete"}

\* The call is in _copy_s3_prefix.
Copying(c) == pc[c] \in {"copy_list", "copy"}

\* C26: in a step of an activate call, an object under current/ is deleted
\* only in the deletion phase, before any object was copied; an object under
\* current/ is written only in the copy phase; the copy phase follows the
\* deletion phase and never leads back to it.  A status probe of the project
\* taken while current/ is empty reports no deployment.
C26_DeleteBeforeCopy ==
  [][\A c \in Clients :
       /\ (Acting(c) /\ call[c].op = "activate" /\ pc[c] # "idle")
            => LET p == call[c].project
                   before == CurrentKeys(bucket, p)
                   after == CurrentKeys(bucket', p)
               IN /\ before \ after # {}
                       => pc[c] = "clear_delete" /\ call[c].n = 0
                  /\ (\E k \in after : k \notin before \/ bucket'[k] # bucket[k])
                       => pc[c] = "copy"
                  /\ Clearing(c) => Clearing(c)' \/ pc'[c] = "copy_list"
                  /\ Copying(c) => Copying(c)' \/ pc'[c] = "idle"
       /\ \A p \in Projects :
            (GetProjectStatus(c, p) /\ CurrentKeys(bucket, p) = {})
              => ~call'[c].is_deployed /\ call'[c].url = NoUrl]_vars

\* An activate call for the deployed project shop has emptied current/ and
\* has not copied yet; a status probe of another command, taken in that
\* state, has reported shop as not deployed.
C26_Witness ==
  \E c \in clients, d \in clients :
    /\ c # d
    /\ call[c].op = "activate"
    /\ call[c].project = "shop"
    /\ Copying(c)
    /\ call[c].n = 0
    /\ call[c].pre # {}
    /\ call[c].src # {}
    /\ Current("shop") = {}
    /\ Succeeded(d, "status")
    /\ call[d].project = "shop"
    /\ ~call[d].s3_error
    /\ ~call[d].is_deployed

\* ---------------------------------------------------------------------
\* One deploy invocation with its build: deploy() runs the build ladder of
\* build_and_prepare_for_deployment inside its try block, then the upload,
\* the activation and the save.
\* ---------------------------------------------------------------------

\* The projects a single invocation is run on.
InvocationInputs ==
  {b \in BuildInputs :
     /\ b.manifest.kind = "ok"
     /\ b.manifest.dependencies \in {{"vite"}, {"react"}}
     /\ b.manifest.devDependencies = {}
     /\ b.config = "original"
     /\ b.backup = "absent"}

\* deploy --version v2, and what its build leaves in the directory.
InvocationVersions == {<<"v2">>}

InvocationOutputs == {SiteA}

\* What the build directory may hold when the build command has returned.
InvocationDirStates ==
  {o \in BuildDirStates : o.files \subseteq {"index.html"}}

\* shop has been deployed before: v1 is live and recorded.
InitInvocation ==
  /\ bucket = DeployedBucket
  /\ clients = {"c1"}
  /\ pc = [c \in Clients |-> "idle"]
  /\ call = [c \in Clients |-> NoCall]
  /\ quota = Unlimited
  /\ tenants = Projects
  /\ snapshots = {<<"shop", <<"v1">>>>, <<"shop", <<"v2">>>>, <<"blog", <<"v1">>>>}
  /\ host = [c \in Clients |-> NoTree]
  /\ build \in InvocationInputs
  /\ html = NoPage
  /\ cmd = [c \in Clients |-> NoCommand]
  /\ config = [current_version |-> <<"v1">>]
  /\ count = NoCount
  /\ monitor = NoMonitor
  /\ purge = NoPurge

\* A build whose failure is never reported to the command.
BuildOutcomeNeverRaised(b) ==
  IF b.outcome = "returned" THEN "returned"
  ELSE IF b.pc = "interrupted" THEN "interrupted"
  ELSE "running"

\* How build_and_prepare_for_deployment has ended, if it has.
BuildOutcome(b) ==
  IF b.pc = "raised" \/ b.outcome = "raised" THEN "raised"
  ELSE IF b.outcome = "returned" THEN "returned"
  ELSE IF b.pc = "interrupted" THEN "interrupted"
  ELSE "running"

\* The command is inside build_and_prepare_for_deployment.
Building(c) ==
  /\ c \in clients
  /\ Running(c, "deploy")
  /\ NotCalled(c)

\* The user runs deploy once.
Invoke(c, version, build_only) ==
  /\ c \in clients
  /\ cmd[c].runs = 0
  /\ StartDeploy(c, version, build_only)

\* Configuration or credentials are missing before the build begins.
InvokePreflightFails(c) ==
  /\ build.pc = "detect"
  /\ PreflightFails(c)

RunDetect(c) == Building(c) /\ DetectFramework

RunPrepare(c, config_written) == Building(c) /\ PrepareProject(config_written)

RunInstall(c, result) == Building(c) /\ InstallStrategy(result)

RunBuild(c, result) == Building(c) /\ BuildStrategy(result)

RunBuildWithoutConfig(c, result) == Building(c) /\ BuildWithoutConfig(result)

RunVerify(c, output) == Building(c) /\ VerifyAndFixBuild(output)

\* build_and_prepare_for_deployment returns the verified directory.
BuildReturns(c, build_output) ==
  /\ BuildOutcome(build) = "returned"
  /\ DeployBuild(c, build_output)

\* build_and_prepare_for_deployment raises "Build failed: ...".
BuildRaises(c) ==
  /\ BuildOutcome(build) = "raised"
  /\ DeployBuildFails(c)

\* Ctrl-C while a command of the build ran.
BuildInterrupted(c) ==
  /\ BuildOutcome(build) = "interrupted"
  /\ Building(c)
  /\ CommandInterrupted(c)

\* Ctrl-C during the upload, the activation or the save.
ReleaseInterrupted(c) ==
  /\ ~NotCalled(c)
  /\ CommandInterrupted(c)

\* The steps the running command takes by itself.
Proceeds(c) ==
  \/ InvokePreflightFails(c)
  \/ RunDetect(c)
  \/ \E w \in BOOLEAN : RunPrepare(c, w)
  \/ \E r \in CommandResults : RunInstall(c, r)
  \/ \E r \in CommandResults : RunBuild(c, r)
  \/ \E r \in CommandResults : RunBuildWithoutConfig(c, r)
  \/ \E o \in InvocationDirStates : RunVerify(c, o)
  \/ \E o \in InvocationOutputs : BuildReturns(c, o)
  \/ BuildRaises(c)
  \/ BuildInterrupted(c)
  \/ BuildOnlyReturns(c)
  \/ DeployUpload(c)
  \/ DeployActivate(c)
  \/ SaveConfig(c)
  \/ SaveConfigFails(c)
  \/ CommandFails(c)
  \/ \E f \in RelPaths : UploadFile(c, f)
  \/ UploadFileFails(c)
  \/ ClearList(c)
  \/ ClearDelete(c)
  \/ ClearFails(c)
  \/ CopyList(c)
  \/ CopyObject(c)
  \/ CopyFails(c)

NextInvocation ==
  \E c \in Clients :
    \/ \E v \in InvocationVersions, b \in BOOLEAN : Invoke(c, v, b)
    \/ InvokePreflightFails(c)
    \/ RunDetect(c)
    \/ \E w \in BOOLEAN : RunPrepare(c, w)
    \/ \E r \in CommandResults : RunInstall(c, r)
    \/ \E r \in CommandResults : RunBuild(c, r)
    \/ \E r \in CommandResults : RunBuildWithoutConfig(c, r)
    \/ \E o \in InvocationDirStates : RunVerify(c, o)
    \/ \E o \in InvocationOutputs : BuildReturns(c, o)
    \/ BuildRaises(c)
    \/ BuildInterrupted(c)
    \/ ReleaseInterrupted(c)
    \/ BuildOnlyReturns(c)
    \/ DeployUpload(c)
    \/ DeployActivate(c)
    \/ SaveConfig(c)
    \/ SaveConfigFails(c)
    \/ CommandFails(c)
    \/ CleanupAfterDelay(c)
    \/ \E f \in RelPaths : UploadFile(c, f)
    \/ UploadFileFails(c)
    \/ ClearList(c)
    \/ ClearDelete(c)
    \/ ClearFails(c)
    \/ CopyList(c)
    \/ CopyObject(c)
    \/ CopyFails(c)

\* The process of a running command keeps executing: every subprocess and
\* every S3 call returns, raises or times out.
InvocationFairness == \A c \in Clients : WF_vars(Proceeds(c))

SpecInvocation == InitInvocation /\ [][NextInvocation]_vars /\ InvocationFairness

\* The step begins a call of op for client c.
Begins(c, op) == call'[c].op = op /\ (call[c].op # op \/ pc[c] = "idle") /\ call'[c] # call[c]

\* C27: in a deploy command the upload begins only after the build returned,
\* with the build directory as it is then, the activation only after the
\* upload of that version returned, and the configuration is written only
\* after the activation returned; after a call that raised the command does
\* nothing more than exit; current/ changes in steps of an activate call
\* only; with --build-only no upload and no activation begins.
C27_DeployPipelineOrder ==
  [][\A c \in Clients :
       cmd[c].name = "deploy"
         => /\ Begins(c, "upload")
                 => /\ pc[c] = "idle" /\ call[c].op = "build"
                    /\ call[c].outcome = "ok"
                    /\ call'[c].art = Rglob(host[c])
                    /\ call'[c].version = cmd[c].version
            /\ Begins(c, "activate")
                 => /\ pc[c] = "idle" /\ call[c].op = "upload"
                    /\ call[c].outcome = "ok"
                    /\ call'[c].version = call[c].version
            /\ config' # config
                 => /\ pc[c] = "idle" /\ call[c].op = "activate"
                    /\ call[c].outcome = "ok"
            /\ (call[c].outcome = "error" /\ Acting(c))
                 => cmd'[c].name = "none" /\ bucket' = bucket /\ config' = config
            /\ Current(ProjectName)' # Current(ProjectName)
                 => call[c].op = "activate" /\ pc[c] \in {"clear_delete", "copy"}
            /\ cmd[c].build_only
                 => ~Begins(c, "upload") /\ ~Begins(c, "activate")
                      /\ bucket' = bucket /\ config' = config]_vars

\* A deploy of v2 has run through: built, uploaded, activated, recorded.
C27_Witness ==
  \E c \in clients :
    /\ cmd[c].last = "deploy"
    /\ cmd[c].exit = "ok"
    /\ cmd[c].version = <<"v2">>
    /\ config.current_version = <<"v2">>
    /\ Current(ProjectName) # {}
    /\ Current(ProjectName) = Snapshot(ProjectName, <<"v2">>)

C29_CurrentMatchesRecord ==
  (\A c \in Clients : cmd[c].name = "none" /\ pc[c] = "idle")
    => \/ config.current_version = NoVersion
       \/ Current(ProjectName) = Snapshot(ProjectName, config.current_version)

\* C30: a rollback command begins an activation only after list_versions
\* returned a list that holds its version, the list of that moment; when the
\* list does not hold it the command does nothing but exit with an error:
\* no object and no record changes.
C30_RollbackChecksVersion ==
  [][\A c \in Clients :
       cmd[c].name = "rollback"
         => /\ Begins(c, "activate")
                 => /\ pc[c] = "idle" /\ call[c].op = "list"
                    /\ call[c].outcome = "ok"
                    /\ call[c].versions = VersionList(bucket, ProjectName)
                    /\ \E i \in 1..Len(call[c].versions) :
                         call[c].versions[i] = cmd[c].version
                    /\ call'[c].version = cmd[c].version
            /\ ( /\ pc[c] = "idle" /\ call[c].op = "list"
                 /\ call[c].outcome = "ok"
                 /\ \A i \in 1..Len(call[c].versions) :
                      call[c].versions[i] # cmd[c].version
                 /\ Acting(c) )
                 => /\ cmd'[c].name = "none"
                    /\ cmd'[c].exit \in {"not_found", "interrupted"}
                    /\ bucket' = bucket
                    /\ config' = config]_vars

\* With v1 deployed and recorded, rollback --version v2 has ended with
\* "Version not found".
C30_Witness ==
  \E c \in clients :
    /\ cmd[c].last = "rollback"
    /\ cmd[c].exit = "not_found"
    /\ cmd[c].version = <<"v2">>
    /\ config.current_version = <<"v1">>
    /\ Current(ProjectName) # {}
    /\ Current(ProjectName) = Snapshot(ProjectName, <<"v1">>)

\* The versions a cleanup call keeps: the first keep_count of its listing.
KeptVersions(cr) ==
  LET kept == IF cr.keep < Len(cr.versions) THEN cr.keep ELSE Len(cr.versions)
  IN Range(SubSeq(cr.versions, 1, kept))

\* C25: when versions --cleanup has returned and the recorded current version
\* was in its listing, the builds/ objects of that version are gone exactly
\* when the version is not among the keep_count greatest identifiers, and
\* then list_versions no longer reports it.
C25_CleanupByRankOnly ==
  \A c \in clients :
    ( /\ Running(c, "cleanup")
      /\ CallReturned(c, "cleanup")
      /\ config.current_version \in Range(call[c].versions) )
      => LET active == config.current_version
         IN /\ Snapshot(ProjectName, active) = {}
                 <=> active \notin KeptVersions(call[c])
            /\ active \notin KeptVersions(call[c])
                 => active \notin Range(VersionList(bucket, ProjectName))

\* How far a deploy command has come: the last call it made.
DeployRank(c) ==
  IF call[c].op = "build" THEN 1
  ELSE IF call[c].op = "upload" THEN 2
  ELSE IF call[c].op = "activate" THEN 3
  ELSE 0

\* No strategy appears twice in a ladder's log.
AtMostOnce(log) ==
  \A i, j \in 1..Len(log) : log[i].strategy = log[j].strategy => i = j

\* The ways a deploy command ends: success, or one fatal error.
DeployExits == {"ok", "preflight", "error", "not_saved", "interrupted"}

\* C24: with every subprocess and every S3 call returning, raising or timing
\* out, a deploy invocation ends, with success or with one fatal error; its
\* install ladder and its build ladder try each strategy at most once and
\* never move back; the command only moves forward through build, upload
\* and activation; and once it has ended nothing takes it up again.
C24_DeployTerminates ==
  /\ \A c \in Clients :
       cmd[c].name = "deploy"
         ~> (cmd[c].name = "none" /\ cmd[c].exit \in DeployExits)
  /\ [](/\ AtMostOnce(build.installs) /\ Len(build.installs) <= Len(InstallCommands)
        /\ AtMostOnce(build.builds) /\ Len(build.builds) <= 4)
  /\ [][/\ Len(build.installs') >= Len(build.installs)
        /\ Len(build.builds') >= Len(build.builds)
        /\ build.pc \in {"raised", "interrupted"} => build' = build
        /\ BuildOutcome(build) # "running" => build' = build
        /\ \A c \in Clients :
             /\ (cmd[c].name = "deploy" /\ cmd'[c].name = "deploy")
                  => DeployRank(c)' >= DeployRank(c)
             /\ cmd[c].exit # "none" => cmd'[c] = cmd[c]]_vars

\* An invocation that tried every install strategy but the last in vain,
\* every build strategy but the last in vain, uploaded, activated and ended
\* with success.
C24_Witness ==
  \E c \in clients :
    /\ cmd[c].last = "deploy"
    /\ cmd[c].exit = "ok"
    /\ Len(build.installs) = Len(InstallCommands)
    /\ Len(build.builds) = 4
    /\ \E i \in 1..Len(build.installs) : build.installs[i].result = "timeout"
    /\ config.current_version = <<"v2">>
    /\ Current(ProjectName) = Snapshot(ProjectName, <<"v2">>)

\* The files an upload call has stored so far.
StoredSoFar(cr) == DOMAIN cr.art \ cr.files

\* C31: an upload that raised after storing k >= 1 files has left these k
\* objects under builds/v/ (the failing step itself changes no object), so
\* list_versions reports v; and a rollback whose listing was taken while
\* builds/v/ held any object, complete or not, finds v in it.
C31_PartialUploadStays ==
  /\ [](\A c \in clients :
         ( /\ pc[c] = "idle" /\ call[c].op = "upload"
           /\ call[c].outcome = "error" /\ call[c].n >= 1 )
           => /\ Cardinality(Snapshot(call[c].project, call[c].version))
                   >= call[c].n
              /\ \E i \in 1..Len(VersionList(bucket, call[c].project)) :
                   VersionList(bucket, call[c].project)[i] = call[c].version)
  /\ [][\A c \in clients :
          /\ (pc[c] = "upload" /\ call'[c].outcome = "error")
               => /\ bucket' = bucket
                  /\ call'[c].n = Cardinality(StoredSoFar(call[c]))
                  /\ \A rel \in StoredSoFar(call[c]) :
                       /\ call[c].prefix \o <<rel>> \in DOMAIN bucket'
                       /\ bucket'[call[c].prefix \o <<rel>>]
                            = StoredObject(call[c].art[rel], rel)
          /\ ( /\ cmd[c].name = "rollback" /\ Begins(c, "list")
               /\ call'[c].outcome = "ok"
               /\ Snapshot(ProjectName, cmd[c].version) # {} )
               => \E i \in 1..Len(call'[c].versions) :
                    call'[c].versions[i] = cmd[c].version]_vars

\* builds/v2/ holds one of the two files of an upload that never completed,
\* and rollback --version v2 has passed the check and begun the activation.
C31_Witness ==
  \E c \in clients :
    /\ Running(c, "rollback")
    /\ cmd[c].version = <<"v2">>
    /\ call[c].op = "activate"
    /\ <<ProjectName, <<"v2">>>> \notin snapshots
    /\ Cardinality(Snapshot(ProjectName, <<"v2">>)) = 1

\* The ways package.json can fail to give its dependency groups.
UnreadableKinds == {"missing", "invalid_json", "bad_groups"}

FilesOf(tree) == {p \in DOMAIN tree : tree[p] = "file"}

\* C33: the file count of the build metadata is the number of files of the
\* build directory, and the uploaded_files of an upload of the same
\* directory is that number too.
C33_FileCountMatchesUpload ==
  /\ count.pc \in {"returned", "uploaded"}
       => count.file_count = Cardinality(FilesOf(count.tree))
  /\ count.pc = "uploaded" => count.uploaded_files = count.file_count

\* C34: in every cycle of the discovery service the target files are
\* written exactly when the discovered set differs from the snapshot, and a
\* reload is requested exactly when they were written whole; the snapshot
\* changes only to the discovered set and only with both files written; a
\* cycle without a difference writes nothing; and the cycle after one whose
\* write failed writes again.
C34_RewriteIffChanged ==
  [][monitor' # monitor
       => LET current == monitor'.last.current
              previous == monitor.previous_deployments
          IN /\ monitor'.last.wrote <=> current # previous
             /\ monitor'.last.reload # "none"
                  <=> (current # previous /\ monitor'.last.fault = "none")
             /\ ~monitor'.last.wrote
                  => /\ monitor'.targets = monitor.targets
                     /\ monitor'.grafana = monitor.grafana
                     /\ monitor'.previous_deployments = previous
             /\ monitor'.previous_deployments # previous
                  => /\ monitor'.previous_deployments = current
                     /\ monitor'.targets = Written(current)
                     /\ monitor'.grafana = Written(current)
             /\ monitor'.last.fault # "none"
                  => monitor'.previous_deployments = previous
             /\ monitor.last.fault # "none" => monitor'.last.wrote]_vars

\* The keys the delete calls issued so far carried.
Deleted == UNION {purge.batches[j] : j \in 1..Len(purge.batches)}

\* C35: the delete calls of _clear_prefix carry between 1 and 1000 keys each
\* and no key twice; when it returns from a listing of n keys it has issued
\* ceil(n / 1000) calls that together carried exactly the n keys, so none is
\* left.
C35_BatchesCoverListing ==
  /\ \A j \in 1..Len(purge.batches) :
       /\ Cardinality(purge.batches[j]) >= 1
       /\ Cardinality(purge.batches[j]) <= 1000
       /\ \A k \in 1..Len(purge.batches) :
            j # k => purge.batches[j] \cap purge.batches[k] = {}
  /\ Deleted \subseteq 1..purge.n
  /\ purge.pc = "returned"
       => /\ Len(purge.batches) = (purge.n + 999) \div 1000
          /\ Deleted = 1..purge.n
          /\ (1..purge.n) \ Deleted = {}

\* A prefix of 2001 objects has been cleared with three calls of 1000, 1000
\* and 1 keys.
C35_Witness ==
  /\ purge.pc = "returned"
  /\ purge.n = 2001
  /\ Len(purge.batches) = 3
  /\ Cardinality(purge.batches[1]) = 1000
  /\ Cardinality(purge.batches[3]) = 1

====
